---- MODULE Spec2Model ----
(***************************************************************************)
(* A model of the extraction-and-scoring engine of nyc-heat-newsletter     *)
(* (src/src/newsletter.py, src/src/config.py).                             *)
(*                                                                         *)
(* Text is modelled as a sequence of one-character strings, so that the    *)
(* regular expressions, str.lower(), str.strip() and the substring tests   *)
(* of the source are computed character by character.  Three characters    *)
(* outside ASCII are written as tokens: "rsquo" (U+2019), "ndash"          *)
(* (U+2013) and "mdash" (U+2014).  Python's None is the one-element        *)
(* sequence None, which is no text (its element is not a character).       *)
(***************************************************************************)
EXTENDS Integers, Sequences, FiniteSets, TLC

VARIABLES
    pc,         \* position of the run
    raw,        \* SpecNorm: the text handed to _norm_name
    key1,       \* SpecNorm: _norm_name(raw)
    key2,       \* SpecNorm: _norm_name(key1)
    items,      \* SpecDedupe: the list handed to dedupe
    merged,     \* the list dedupe returned
    again,      \* SpecDedupe: what a further call of dedupe returned
    WEIGHTS,    \* config.WEIGHTS
    last_month_names,   \* state["last_month_names"]
    pages,      \* SpecExtract: the pages fetch_html returned so far, one per source
    all_items,  \* SpecExtract: main's all_items
    log,        \* SpecExtract: the "[Resy] ..." lines printed so far
    resy_from,  \* SpecExtract: for each entry extract_resy_hit_list returned,
                \* the position of the heading it was made from
    fetch,      \* SpecFetch: the call of fetch_html (its arguments and locals)
    state_file, \* data/state.json
    env,        \* os.environ, as far as main reads it
    og_calls,   \* the entries og_image was called for in this run
    dist,       \* dist/index.html, as far as rendered in this run
    outbox,     \* the messages handed to the SMTP server
    steps,      \* the steps of main taken in this run
    run_no      \* the number of the run

vars == <<pc, raw, key1, key2, items, merged, again, WEIGHTS, last_month_names,
          pages, all_items, log, resy_from,
          fetch, state_file, env, og_calls, dist, outbox, steps, run_no>>

\* the variables of each specification, and their values where it is not run
normVars == <<raw, key1, key2>>
dedupeVars == <<items, again>>
heatVars == <<WEIGHTS, last_month_names>>
extractVars == <<pages, all_items, log, resy_from>>
fetchVars == <<fetch>>
mainVars == <<state_file, env, og_calls, dist, outbox, steps, run_no>>

None == <<"None">>

NormIdle == raw = None /\ key1 = None /\ key2 = None
DedupeIdle == items = <<>> /\ again = <<>>
HeatIdle == WEIGHTS = None /\ last_month_names = <<>>
ExtractIdle == pages = <<>> /\ all_items = <<>> /\ log = <<>> /\ resy_from = <<>>
FetchIdle == fetch = [pc |-> "idle"]
MainIdle ==
    /\ state_file = [exists |-> FALSE, last_month_names |-> <<>>]
    /\ env = [DRY_RUN |-> FALSE]
    /\ og_calls = {}
    /\ dist = [rendered |-> FALSE, restaurants |-> <<>>]
    /\ outbox = <<>>
    /\ steps = <<>>
    /\ run_no = 0

(***************************************************************************)
(* Characters                                                              *)
(***************************************************************************)
DigitChars == <<"0","1","2","3","4","5","6","7","8","9">>
UpperChars == <<"A","B","C","D","E","F","G","H","I","J","K","L","M",
                "N","O","P","Q","R","S","T","U","V","W","X","Y","Z">>
LowerChars == <<"a","b","c","d","e","f","g","h","i","j","k","l","m",
                "n","o","p","q","r","s","t","u","v","w","x","y","z">>

Range(f) == {f[i] : i \in DOMAIN f}

DigitSet == Range(DigitChars)
UpperSet == Range(UpperChars)
LowerSet == Range(LowerChars)

\* \d
IsDigit(c) == c \in DigitSet
\* \s, and the characters str.strip() removes
IsSpace(c) == c \in {" ", "\t", "\n"}
\* [\.\)\-–—:]
IsNumberingSep(c) == c \in {".", ")", "-", "ndash", "mdash", ":"}
\* [a-z0-9 '&-]
IsSafeChar(c) == c \in LowerSet \cup DigitSet \cup {" ", "'", "&", "-"}

DigitVal(c) == (CHOOSE i \in 1..10 : DigitChars[i] = c) - 1

\* str.lower() on one character
LowerChar(c) ==
    IF c \in UpperSet THEN LowerChars[CHOOSE i \in 1..26 : UpperChars[i] = c] ELSE c

(***************************************************************************)
(* Strings                                                                 *)
(***************************************************************************)
\* str.lower()
Lower(s) == [i \in 1..Len(s) |-> LowerChar(s[i])]

\* s[i:] for a 1-based i
Drop(s, i) == SubSeq(s, i, Len(s))

\* the first position >= i of s that holds no whitespace (Len(s)+1 if none)
RECURSIVE SkipSpaces(_, _)
SkipSpaces(s, i) ==
    IF i <= Len(s) /\ IsSpace(s[i]) THEN SkipSpaces(s, i + 1) ELSE i

\* the first position >= i of s that holds no digit (Len(s)+1 if none)
RECURSIVE SkipDigits(_, _)
SkipDigits(s, i) ==
    IF i <= Len(s) /\ IsDigit(s[i]) THEN SkipDigits(s, i + 1) ELSE i

\* the last position <= i of s that holds no whitespace (0 if none)
RECURSIVE SkipSpacesBack(_, _)
SkipSpacesBack(s, i) ==
    IF i >= 1 /\ IsSpace(s[i]) THEN SkipSpacesBack(s, i - 1) ELSE i

\* str.strip()
Strip(s) == SubSeq(s, SkipSpaces(s, 1), SkipSpacesBack(s, Len(s)))

\* needle in hay (Python's substring test)
Contains(needle, hay) ==
    \E i \in 0..(Len(hay) - Len(needle)) :
        \A j \in 1..Len(needle) : hay[i + j] = needle[j]

\* hay.startswith(prefix)
StartsWith(hay, prefix) ==
    /\ Len(prefix) <= Len(hay)
    /\ \A j \in 1..Len(prefix) : hay[j] = prefix[j]

\* the decimal value of a string of digits
RECURSIVE DigitsToInt(_)
DigitsToInt(s) ==
    IF s = <<>> THEN 0
    ELSE 10 * DigitsToInt(SubSeq(s, 1, Len(s) - 1)) + DigitVal(s[Len(s)])

(***************************************************************************)
(* Basic helpers                                                           *)
(***************************************************************************)
\* The match of ^\s*\d+\s*[\.\)\-–—:]\s* (or, with maxDigits = 3, of
\* ^\s*(\d{1,3})\s*[\.\)\-–—:]\s*) at the start of s, as <<first digit,
\* one past the last digit, one past the match>>; <<0, 0, 0>> if s does not
\* match.  The separators are no digits, so the greedy \d+ never gives a
\* digit back, and a run of more digits than maxDigits does not match.
NumberingMatch(s, maxDigits) ==
    LET d1 == SkipSpaces(s, 1)
        d2 == SkipDigits(s, d1)
        p  == SkipSpaces(s, d2)
    IN  IF /\ d2 > d1
           /\ (maxDigits = 0 \/ d2 - d1 <= maxDigits)
           /\ p <= Len(s)
           /\ IsNumberingSep(s[p])
        THEN <<d1, d2, SkipSpaces(s, p + 1)>>
        ELSE <<0, 0, 0>>

_strip_leading_numbering(name) ==
    IF name = <<>> THEN name
    ELSE LET m == NumberingMatch(name, 0)
         IN  Strip(IF m[3] = 0 THEN name ELSE Drop(name, m[3]))

\* None when the text does not start with an ordinal of one to three digits
_leading_num(text) ==
    LET m == NumberingMatch(text, 3)
    IN  IF m[3] = 0 THEN -1 ELSE DigitsToInt(SubSeq(text, m[1], m[2] - 1))

\* re.sub(r"\s+", " ", n)
RECURSIVE CollapseSpaces(_)
CollapseSpaces(n) ==
    IF n = <<>> THEN <<>>
    ELSE IF IsSpace(n[1])
         THEN <<" ">> \o CollapseSpaces(Drop(n, SkipSpaces(n, 1)))
         ELSE <<n[1]>> \o CollapseSpaces(Tail(n))

_norm_name(name) ==
    LET n0 == _strip_leading_numbering(IF name = None THEN <<>> ELSE name)
        n1 == Strip(Lower(n0))
        n2 == [i \in 1..Len(n1) |-> IF n1[i] = "rsquo" THEN "'" ELSE n1[i]]
        n3 == CollapseSpaces(n2)
    IN  SelectSeq(n3, IsSafeChar)

(***************************************************************************)
(* Bounded inputs                                                          *)
(***************************************************************************)
\* every text over the characters A of at most n characters
StringsUpTo(A, n) == UNION {[1..k -> A] : k \in 0..n}

MaxNameLen == 4

NormAlphabet == {"1", ".", " ", "a", "A", "!"}

\* "1. 2- foo", "12. Joe's Pizza", "joe’s pizza", "1234. Foo"
NormExamples == {
    <<"1","."," ","2","-"," ","f","o","o">>,
    <<"1","2","."," ","J","o","e","'","s"," ","P","i","z","z","a">>,
    <<"j","o","e","rsquo","s"," ","p","i","z","z","a">>,
    <<"1","2","3","4","."," ","F","o","o">> }

NormInputs == StringsUpTo(NormAlphabet, MaxNameLen) \cup NormExamples

(***************************************************************************)
(* SpecNorm: _norm_name applied to a text, then to its own result          *)
(***************************************************************************)
InitNorm ==
    /\ pc = "norm"
    /\ raw \in NormInputs
    /\ key1 = None
    /\ key2 = None
    /\ DedupeIdle
    /\ FetchIdle
    /\ MainIdle
    /\ merged = <<>>
    /\ HeatIdle
    /\ ExtractIdle

NormOnce ==
    /\ pc = "norm"
    /\ key1' = _norm_name(raw)
    /\ pc' = "renorm"
    /\ UNCHANGED <<raw, key2, dedupeVars, merged, heatVars, extractVars, fetchVars, mainVars>>

NormTwice ==
    /\ pc = "renorm"
    /\ key2' = _norm_name(key1)
    /\ pc' = "done"
    /\ UNCHANGED <<raw, key1, dedupeVars, merged, heatVars, extractVars, fetchVars, mainVars>>

NextNorm == NormOnce \/ NormTwice

SpecNorm == InitNorm /\ [][NextNorm]_vars

\* C8: name normalization is idempotent: _norm_name(_norm_name(x)) = _norm_name(x)
\* for every text x.
C8_NormIdempotent == pc = "done" => key2 = key1

(***************************************************************************)
(* Restaurant records and dedupe                                           *)
(***************************************************************************)
\* Python's truth value of an Optional[str] or an Optional[List[str]]
Truthy(v) == v # None /\ v # <<>>

\* a variant of "a or b" that prefers the later value
PyOr_Swapped(a, b) == IF Truthy(b) THEN b ELSE a

\* a or b
PyOr(a, b) == IF Truthy(a) THEN a ELSE b

\* the publishers' labels, in the order sorted() gives them
SourceLabels == <<"Eater", "Resy">>

\* a variant of the sources merge that keeps the seen entry's sources only
SortedUnion_KeepSeen(a, b) == a

\* sorted(list(set(a + b))) of two source lists
SortedUnion(a, b) ==
    SelectSeq(SourceLabels, LAMBDA l : l \in Range(a) \cup Range(b))

\* The dataclass Restaurant with its defaults.
Restaurant(name, url, image_url, why_hot, sources) ==
    [ name           |-> name,
      url            |-> url,
      image_url      |-> image_url,
      neighborhood   |-> None,
      cuisine        |-> None,
      why_hot        |-> why_hot,
      sources        |-> sources,
      heat_score     |-> 0,
      res_difficulty |-> "Moderate",
      booking_tip    |-> "Book ahead when possible; aim for off-peak times.",
      notes          |-> None ]

\* The body of dedupe's loop for an r whose key is already in seen: e is
\* seen[key].
MergeInto(e, r) ==
    LET srcs == SortedUnion(PyOr(e.sources, <<>>), PyOr(r.sources, <<>>))
        e1 == [e EXCEPT !.sources      = srcs,
                        !.url          = PyOr(e.url, r.url),
                        !.why_hot      = PyOr(e.why_hot, r.why_hot),
                        !.neighborhood = PyOr(e.neighborhood, r.neighborhood),
                        !.cuisine      = PyOr(e.cuisine, r.cuisine)]
        img1 == IF Truthy(e1.sources) /\ "Eater" \in Range(PyOr(e1.sources, <<>>))
                   /\ Truthy(e1.image_url)
                THEN e1.image_url ELSE None
        eater_img == IF Truthy(r.sources) /\ "Eater" \in Range(PyOr(r.sources, <<>>))
                        /\ Truthy(r.image_url)
                     THEN r.image_url ELSE img1
    IN  [e1 EXCEPT !.image_url = IF Truthy(eater_img) THEN eater_img
                                 ELSE PyOr(e1.image_url, r.image_url)]

\* dedupe's loop: keys holds the keys of the dict seen in insertion order and
\* seen its values, so that seen[i] is the entry of keys[i].
RECURSIVE DedupeLoop(_, _, _)
DedupeLoop(rest, keys, seen) ==
    IF rest = <<>> THEN seen
    ELSE LET r   == [rest[1] EXCEPT !.name = _strip_leading_numbering(@)]
             key == _norm_name(r.name)
         IN  IF \A i \in 1..Len(keys) : keys[i] # key
             THEN DedupeLoop(Tail(rest), Append(keys, key), Append(seen, r))
             ELSE LET i == CHOOSE i \in 1..Len(keys) : keys[i] = key
                  IN  DedupeLoop(Tail(rest), keys,
                                 [seen EXCEPT ![i] = MergeInto(seen[i], r)])

dedupe(list) == DedupeLoop(list, <<>>, <<>>)

(***************************************************************************)
(* SpecDedupe: dedupe applied to a list of entries, and then once more to  *)
(* a permutation of the list, to the list followed by a copy of itself,    *)
(* or to its own result                                                    *)
(***************************************************************************)
MaxItems == 2

\* "Foo", "1. 2. foo", "Bar": the first two share the key "foo"
DedupeNames == {
    <<"F","o","o">>,
    <<"1","."," ","2","."," ","f","o","o">>,
    <<"B","a","r">> }

\* what an extractor gives an entry as its sources
DedupeSources == {<<"Resy">>, <<"Eater">>}

\* the values of an optional field: None, or one of two texts
Opt(field) == <<None, <<field, "1">>, <<field, "2">>>>

\* The entries handed to dedupe.  The four text fields of an entry are all
\* None, all their first value or all their second (c[1]); the image is
\* chosen likewise (c[2]), in the combinations where one of the two choices
\* is None or both agree.
DedupeChoices == {c \in (1..3) \X (1..3) : c[1] = 1 \/ c[2] = 1 \/ c[1] = c[2]}

DedupeEntries ==
    { [ Restaurant(n, Opt("u")[c[1]], Opt("i")[c[2]], Opt("w")[c[1]], srcs)
          EXCEPT !.neighborhood = Opt("n")[c[1]], !.cuisine = Opt("c")[c[1]] ] :
        n \in DedupeNames, srcs \in DedupeSources, c \in DedupeChoices }

DedupeInputs == UNION {[1..k -> DedupeEntries] : k \in 0..MaxItems}

InitDedupe ==
    /\ pc = "input"
    /\ items \in DedupeInputs
    /\ merged = <<>>
    /\ again = <<>>
    /\ NormIdle
    /\ FetchIdle
    /\ MainIdle
    /\ HeatIdle
    /\ ExtractIdle

Dedupe ==
    /\ pc = "input"
    /\ merged' = dedupe(items)
    /\ pc' = "merged"
    /\ UNCHANGED <<items, again, normVars, heatVars, extractVars, fetchVars, mainVars>>

DedupePermuted ==
    /\ pc = "merged"
    /\ \E p \in Permutations(1..Len(items)) :
          again' = dedupe([i \in 1..Len(items) |-> items[p[i]]])
    /\ pc' = "permuted"
    /\ UNCHANGED <<items, merged, normVars, heatVars, extractVars, fetchVars, mainVars>>

DedupeDoubled ==
    /\ pc = "merged"
    /\ again' = dedupe(items \o items)
    /\ pc' = "doubled"
    /\ UNCHANGED <<items, merged, normVars, heatVars, extractVars, fetchVars, mainVars>>

DedupeMerged ==
    /\ pc = "merged"
    /\ again' = dedupe(merged)
    /\ pc' = "remerged"
    /\ UNCHANGED <<items, merged, normVars, heatVars, extractVars, fetchVars, mainVars>>

NextDedupe == Dedupe \/ DedupePermuted \/ DedupeDoubled \/ DedupeMerged

SpecDedupe == InitDedupe /\ [][NextDedupe]_vars

(***************************************************************************)
(* Claims about dedupe                                                     *)
(***************************************************************************)
\* the key dedupe files an entry of its input under
KeyOfInput(r) == _norm_name(_strip_leading_numbering(r.name))

\* the entries of the input list filed under key k, in encounter order
Group(list, k) == SelectSeq(list, LAMBDA r : KeyOfInput(r) = k)

\* the set of an entry's sources
SourceSet(e) == IF e.sources = None THEN {} ELSE Range(e.sources)

\* the first value of a sequence that is not None (None if there is none)
FirstNonNull(vals) ==
    IF \A i \in 1..Len(vals) : vals[i] = None THEN None
    ELSE vals[CHOOSE i \in 1..Len(vals) :
                 vals[i] # None /\ \A j \in 1..(i - 1) : vals[j] = None]

\* a list of entries, each with its sources as a set
WithSourceSets(list) ==
    [i \in 1..Len(list) |-> [list[i] EXCEPT !.sources = SourceSet(list[i])]]

\* C3: dedupe returns exactly one entry per distinct normalized name: the
\* normalized names of the output entries are pairwise distinct, and the set
\* of output normalized names equals the set of input normalized names.
C3_OnePerNormalizedName ==
    pc = "merged" =>
        /\ \A i, j \in 1..Len(merged) :
              i # j => _norm_name(merged[i].name) # _norm_name(merged[j].name)
        /\ {_norm_name(e.name) : e \in Range(merged)}
              = {_norm_name(r.name) : r \in Range(items)}

C6_ImagePrecedence ==
    pc = "merged" =>
        \A e \in Range(merged) :
            LET g  == Group(items, _norm_name(e.name))
                eg == SelectSeq(g, LAMBDA r : "Eater" \in SourceSet(r))
                eaterFirst == FirstNonNull([i \in 1..Len(eg) |-> eg[i].image_url])
            IN  e.image_url =
                    IF eaterFirst # None THEN eaterFirst
                    ELSE FirstNonNull([i \in 1..Len(g) |-> g[i].image_url])

\* C7: merge is idempotent: dedupe of a list followed by a copy of itself, and
\* dedupe of dedupe's result, both equal dedupe of the list, field for field
\* with the sources compared as sets.
C7_MergeIdempotent ==
    pc \in {"doubled", "remerged"} => WithSourceSets(again) = WithSourceSets(merged)

(***************************************************************************)
(* Configuration (config.py)                                               *)
(***************************************************************************)
\* WEIGHTS as shipped
ShippedWeights ==
    [ both_sources_bonus       |-> 40,
      new_this_month_bonus     |-> 20,
      carried_over_bonus       |-> 10,
      language_intensity_max   |-> 15,
      reservation_scarcity_max |-> 15 ]

\* the buckets of the dict, in its order: a score and its keywords
INTENSITY_KEYWORDS == <<
    [ score |-> 5,
      kws   |-> <<
          <<"b","u","z","z">>,
          <<"b","u","z","z","y">>,
          <<"h","y","p","e">>,
          <<"h","o","t">>,
          <<"h","o","t","t","e","s","t">>,
          <<"m","u","s","t","-","t","r","y">>,
          <<"v","i","r","a","l">> >> ],
    [ score |-> 8,
      kws   |-> <<
          <<"l","i","n","e">>,
          <<"l","i","n","e","s">>,
          <<"p","a","c","k","e","d">>,
          <<"c","r","o","w","d","e","d">>,
          <<"a","l","w","a","y","s"," ","f","u","l","l">>,
          <<"s","l","a","m">>,
          <<"s","l","a","m","m","e","d">> >> ],
    [ score |-> 12,
      kws   |-> <<
          <<"h","a","r","d"," ","t","o"," ","b","o","o","k">>,
          <<"t","o","u","g","h"," ","r","e","s","e","r","v","a","t","i","o","n">>,
          <<"i","m","p","o","s","s","i","b","l","e">>,
          <<"s","o","l","d"," ","o","u","t">>,
          <<"b","o","o","k","e","d"," ","u","p">> >> ],
    [ score |-> 15,
      kws   |-> <<
          <<"t","h","e"," ","h","a","r","d","e","s","t">>,
          <<"n","e","a","r","l","y"," ","i","m","p","o","s","s","i","b","l","e">>,
          <<"m","o","n","t","h","s"," ","o","u","t">> >> ] >>

\* the buckets of the dict, in its order
SCARCITY_KEYWORDS == <<
    [ score |-> 5,
      kws   |-> <<
          <<"r","e","s","e","r","v","a","t","i","o","n","s"," ","r","e","c","o","m","m","e","n","d","e","d">>,
          <<"b","o","o","k"," ","a","h","e","a","d">>,
          <<"l","i","m","i","t","e","d"," ","s","e","a","t","i","n","g">> >> ],
    [ score |-> 8,
      kws   |-> <<
          <<"r","e","s","e","r","v","a","t","i","o","n"," ","r","e","l","e","a","s","e">>,
          <<"d","r","o","p","s">>,
          <<"a","t"," ","n","o","o","n">>,
          <<"a","t"," ","1","0","a","m">>,
          <<"s","e","t"," ","y","o","u","r"," ","a","l","a","r","m">> >> ],
    [ score |-> 12,
      kws   |-> <<
          <<"w","a","l","k","-","i","n"," ","o","n","l","y">>,
          <<"w","a","l","k"," ","i","n","s"," ","o","n","l","y">>,
          <<"n","o"," ","r","e","s","e","r","v","a","t","i","o","n","s">>,
          <<"b","a","r"," ","s","e","a","t","s">>,
          <<"c","o","u","n","t","e","r"," ","s","e","a","t","s">> >> ],
    [ score |-> 15,
      kws   |-> <<
          <<"t","i","c","k","e","t","e","d">>,
          <<"p","r","e","p","a","i","d">>,
          <<"w","a","i","t","i","n","g"," ","l","i","s","t">> >> ] >>

(***************************************************************************)
(* Scoring                                                                 *)
(***************************************************************************)
Min(a, b) == IF a <= b THEN a ELSE b
Max(a, b) == IF a >= b THEN a ELSE b

\* any(k in text for k in kws)
AnyIn(kws, text) == \E i \in 1..Len(kws) : Contains(kws[i], text)

\* keyword_score's loop over buckets.items(): best after the buckets left
RECURSIVE KeywordBest(_, _, _)
KeywordBest(t, buckets, best) ==
    IF buckets = <<>> THEN best
    ELSE KeywordBest(t, Tail(buckets),
                     IF AnyIn(buckets[1].kws, t) THEN Max(best, buckets[1].score)
                     ELSE best)

\* keyword_score matching the keywords against the text as written
keyword_score_CaseSensitive(text, buckets, max_score) ==
    IF ~Truthy(text) THEN 0
    ELSE Min(KeywordBest(text, buckets, 0), max_score)

keyword_score(text, buckets, max_score) ==
    IF ~Truthy(text) THEN 0
    ELSE Min(KeywordBest(Lower(text), buckets, 0), max_score)

\* reservation_intel's signal words
BrutalWords == <<
    <<"i","m","p","o","s","s","i","b","l","e">>,
    <<"s","o","l","d"," ","o","u","t">>,
    <<"m","o","n","t","h","s"," ","o","u","t">>,
    <<"h","a","r","d","e","s","t">>,
    <<"b","o","o","k","e","d"," ","u","p">> >>
HardWords == <<
    <<"h","a","r","d"," ","t","o"," ","b","o","o","k">>,
    <<"t","o","u","g","h"," ","r","e","s","e","r","v","a","t","i","o","n">>,
    <<"s","e","t"," ","y","o","u","r"," ","a","l","a","r","m">>,
    <<"r","e","s","e","r","v","a","t","i","o","n"," ","r","e","l","e","a","s","e">>,
    <<"d","r","o","p","s">> >>
EasyWords == <<
    <<"w","a","l","k","-","i","n"," ","f","r","i","e","n","d","l","y">>,
    <<"p","l","e","n","t","y"," ","o","f"," ","s","e","a","t","s">>,
    <<"e","a","s","y"," ","t","o"," ","b","o","o","k">>,
    <<"n","o"," ","p","r","o","b","l","e","m"," ","g","e","t","t","i","n","g"," ","i","n">> >>

\* the four booking tips (the OpenTable tip's dash is written "-")
TipWalkIn == "Treat it like a walk-in: go early (before 6pm) or late, and be flexible on party size."
TipResy == "Use Resy: check common drop times (often mornings), enable notifications, and target bar/counter seats."
TipOpenTable == "Use OpenTable: book 1-2 weeks out, then set alerts for earlier times and watch for last-minute openings."
TipGeneric == "Book ahead where possible; otherwise aim for off-peak (early/late) and consider bar seating."

\* <<res_difficulty, booking_tip>> of an entry
reservation_intel(r) ==
    LET text == Lower(PyOr(r.why_hot, <<>>))
        platform ==
            IF Truthy(r.url) /\ Contains(<<"r","e","s","y",".","c","o","m">>, r.url) THEN "Resy"
            ELSE IF Truthy(r.url) /\ Contains(<<"o","p","e","n","t","a","b","l","e",".","c","o","m">>, r.url) THEN "OpenTable"
            ELSE "None"
        diff == IF AnyIn(BrutalWords, text) THEN "Brutal"
                ELSE IF AnyIn(HardWords, text) THEN "Hard"
                ELSE IF AnyIn(EasyWords, text) THEN "Easy"
                ELSE "Moderate"
        tip == IF Contains(<<"w","a","l","k","-","i","n">>, text) \/ Contains(<<"w","a","l","k"," ","i","n","s">>, text) THEN TipWalkIn
               ELSE IF platform = "Resy" \/ Contains(<<"r","e","s","y">>, text) THEN TipResy
               ELSE IF platform = "OpenTable" \/ Contains(<<"o","p","e","n","t","a","b","l","e">>, text) THEN TipOpenTable
               ELSE TipGeneric
    IN  <<diff, tip>>

\* ClampScore without its lower bound
ClampScore_NoFloor(score) == Min(100, score)

\* max(0, min(100, int(score)))
ClampScore(score) == Max(0, Min(100, score))

\* the body of compute_heat's loop: r with its score, difficulty and tip
ScoreEntry(r, last_set, weights) ==
    LET srcs == Range(PyOr(r.sources, <<>>))
        both == IF "Resy" \in srcs /\ "Eater" \in srcs
                THEN weights.both_sources_bonus ELSE 0
        novelty == IF _norm_name(r.name) \in last_set
                   THEN weights.carried_over_bonus
                   ELSE weights.new_this_month_bonus
        why == PyOr(r.why_hot, <<>>)
        score == both + novelty
                 + keyword_score(why, INTENSITY_KEYWORDS, weights.language_intensity_max)
                 + keyword_score(why, SCARCITY_KEYWORDS, weights.reservation_scarcity_max)
        intel == reservation_intel(r)
    IN  [r EXCEPT !.heat_score = ClampScore(score),
                  !.res_difficulty = intel[1],
                  !.booking_tip = intel[2]]

\* list.sort(key=heat_score, reverse=True): stable, so that entries of equal
\* score keep their order.  InsertByHeat puts r after every entry of sorted
\* whose score is at least r's.
RECURSIVE InsertByHeat_TiesFirst(_, _)
InsertByHeat_TiesFirst(sorted, r) ==
    IF sorted = <<>> THEN <<r>>
    ELSE IF sorted[1].heat_score > r.heat_score
         THEN <<sorted[1]>> \o InsertByHeat_TiesFirst(Tail(sorted), r)
         ELSE <<r>> \o sorted

RECURSIVE InsertByHeat(_, _)
InsertByHeat(sorted, r) ==
    IF sorted = <<>> THEN <<r>>
    ELSE IF sorted[1].heat_score >= r.heat_score
         THEN <<sorted[1]>> \o InsertByHeat(Tail(sorted), r)
         ELSE <<r>> \o sorted

RECURSIVE SortByHeat(_, _)
SortByHeat(list, sorted) ==
    IF list = <<>> THEN sorted
    ELSE SortByHeat(Tail(list), InsertByHeat(sorted, list[1]))

\* the list compute_heat leaves in place of restaurants
compute_heat(restaurants, last_names, weights) ==
    LET last_set == {_norm_name(last_names[i]) : i \in 1..Len(last_names)}
    IN  SortByHeat([i \in 1..Len(restaurants) |->
                       ScoreEntry(restaurants[i], last_set, weights)], <<>>)

(***************************************************************************)
(* SpecHeat: compute_heat applied to a list of entries                     *)
(***************************************************************************)
MaxHeatItems == 2

\* The weights a run is configured with: the shipped ones, ones whose sum
\* exceeds 100, and negative ones.
WeightConfigs == {
    ShippedWeights,
    [ both_sources_bonus       |-> 80,
      new_this_month_bonus     |-> 60,
      carried_over_bonus       |-> 30,
      language_intensity_max   |-> 50,
      reservation_scarcity_max |-> 9 ],
    [ both_sources_bonus       |-> -40,
      new_this_month_bonus     |-> 5,
      carried_over_bonus       |-> -10,
      language_intensity_max   |-> -3,
      reservation_scarcity_max |-> 15 ] }

\* "Foo", "Bar"
HeatNames == {
    <<"F","o","o">>,
    <<"B","a","r">> }

\* the names an earlier run saved: none, "FOO", or "Bar" and "Foo"
LastMonthLists == {
    <<>>,
    <<<<"F","O","O">>>>,
    <<<<"B","a","r">>,
      <<"F","o","o">>>> }

\* The blurbs: None, "Sold out nightly", "sold out; the hardest, prepaid",
\* "buzzy, drops at noon"
HeatBlurbs == {
    None,
    <<"S","o","l","d"," ","o","u","t"," ","n","i","g","h","t","l","y">>,
    <<"s","o","l","d"," ","o","u","t",";"," ","t","h","e"," ","h","a","r","d","e","s","t",","," ","p","r","e","p","a","i","d">>,
    <<"b","u","z","z","y",","," ","d","r","o","p","s"," ","a","t"," ","n","o","o","n">> }

HeatSources == {<<"Resy">>, <<"Eater">>, <<"Eater", "Resy">>}

HeatEntries ==
    { Restaurant(n, None, None, w, srcs) :
        n \in HeatNames, w \in HeatBlurbs, srcs \in HeatSources }

HeatInputs == UNION {[1..k -> HeatEntries] : k \in 0..MaxHeatItems}

InitHeat ==
    /\ pc = "heat"
    /\ merged \in HeatInputs
    /\ WEIGHTS \in WeightConfigs
    /\ last_month_names \in LastMonthLists
    /\ NormIdle
    /\ FetchIdle
    /\ MainIdle
    /\ DedupeIdle
    /\ ExtractIdle

ComputeHeat ==
    /\ pc = "heat"
    /\ merged' = compute_heat(merged, last_month_names, WEIGHTS)
    /\ pc' = "scored"
    /\ UNCHANGED <<normVars, dedupeVars, heatVars, extractVars, fetchVars, mainVars>>

NextHeat == ComputeHeat

SpecHeat == InitHeat /\ [][NextHeat]_vars

(***************************************************************************)
(* Name heuristics                                                         *)
(***************************************************************************)
\* fragments no restaurant name holds
_BAD_NAME_FRAGMENTS == <<
    <<"n","e","w","e","s","t"," ","r","e","s","t","a","u","r","a","n","t"," ","o","p","e","n","i","n","g","s">>,
    <<"n","o","w"," ","o","n"," ","r","e","s","y">>,
    <<"n","e","w","s","l","e","t","t","e","r">>,
    <<"s","i","g","n"," ","u","p">>,
    <<"s","u","b","s","c","r","i","b","e">>,
    <<"f","o","l","l","o","w"," ","u","s">>,
    <<"g","i","f","t"," ","c","a","r","d">>,
    <<"r","e","s","y"," ","e","v","e","n","t","s">>,
    <<"p","r","i","v","a","t","e"," ","d","i","n","i","n","g">>,
    <<"m","o","r","e"," ","f","r","o","m"," ","r","e","s","y">>,
    <<"r","e","a","d"," ","m","o","r","e">>,
    <<"u","p","d","a","t","e","d">>,
    <<"w","h","e","r","e"," ","t","o"," ","e","a","t">>,
    <<"t","h","e"," ","h","i","t"," ","l","i","s","t">>,
    <<"t","h","e"," ","h","e","a","t","m","a","p">> >>

\* navigation and marketing phrases
_REJECT_EXACT == {
    <<"a","b","o","u","t">>,
    <<"a","c","c","e","s","s","i","b","i","l","i","t","y"," ","s","t","a","t","e","m","e","n","t">>,
    <<"c","a","r","e","e","r","s">>,
    <<"c","o","o","k","i","e"," ","p","o","l","i","c","y">>,
    <<"c","r","a","v","i","n","g"," ","s","o","m","e","t","h","i","n","g"," ","e","l","s","e">>,
    <<"d","i","s","c","o","v","e","r"," ","m","o","r","e">>,
    <<"e","v","e","n","t","s">>,
    <<"f","e","a","t","u","r","e","s">>,
    <<"f","o","r"," ","r","e","s","t","a","u","r","a","n","t","s">>,
    <<"g","e","t"," ","r","e","s","y"," ","e","m","a","i","l","s">>,
    <<"g","l","o","b","a","l"," ","d","i","n","i","n","g"," ","a","c","c","e","s","s">>,
    <<"g","l","o","b","a","l"," ","p","r","i","v","a","c","y"," ","p","o","l","i","c","y">>,
    <<"n","e","a","r","b","y"," ","r","e","s","t","a","u","r","a","n","t","s">>,
    <<"n","e","w"," ","o","n"," ","r","e","s","y">>,
    <<"p","l","a","n","s"," ","&"," ","p","r","i","c","i","n","g">>,
    <<"r","e","q","u","e","s","t"," ","a"," ","d","e","m","o">>,
    <<"r","e","s","y">>,
    <<"r","e","s","y"," ","h","e","l","p"," ","d","e","s","k">>,
    <<"r","e","s","y"," ","o","s"," ","d","a","s","h","b","o","a","r","d">>,
    <<"r","e","s","y"," ","o","s"," ","o","v","e","r","v","i","e","w">>,
    <<"t","e","r","m","s"," ","o","f"," ","s","e","r","v","i","c","e">>,
    <<"t","h","e"," ","r","e","s","y"," ","c","r","e","d","i","t">>,
    <<"t","o","p"," ","r","a","t","e","d">>,
    <<"w","h","y"," ","r","e","s","y"," ","o","s">> }

\* jan|feb|...|dec
MonthPrefixes == {
    <<"j","a","n">>,
    <<"f","e","b">>,
    <<"m","a","r">>,
    <<"a","p","r">>,
    <<"m","a","y">>,
    <<"j","u","n">>,
    <<"j","u","l">>,
    <<"a","u","g">>,
    <<"s","e","p">>,
    <<"o","c","t">>,
    <<"n","o","v">>,
    <<"d","e","c">> }

\* the prefixes of low.startswith((...)) in _looks_like_restaurant_name
RejectedStarts == <<
    <<"a"," ">>,
    <<"a","n"," ">>,
    <<"t","h","e"," ">>,
    <<"w","a","t","c","h"," ">>,
    <<"v","i","e","w","i","n","g"," ">>,
    <<"b","u","f","f","e","t"," ">>,
    <<"f","o","u","r","-","c","o","u","r","s","e">> >>

\* the first position >= i of s that holds no lower-case letter
RECURSIVE SkipLowerLetters(_, _)
SkipLowerLetters(s, i) ==
    IF i <= Len(s) /\ s[i] \in LowerSet THEN SkipLowerLetters(s, i + 1) ELSE i

\* re.match(r"^(jan|...|dec)[a-z]*\.?\s+\d{1,2}$", low).  [a-z]* is greedy
\* and what follows it starts with no letter, so it takes every letter.
IsMonthDay(low) ==
    /\ Len(low) >= 3
    /\ SubSeq(low, 1, 3) \in MonthPrefixes
    /\ LET a == SkipLowerLetters(low, 4)
           b == IF a <= Len(low) /\ low[a] = "." THEN a + 1 ELSE a
           c == SkipSpaces(low, b)
           d == SkipDigits(low, c)
       IN  /\ c > b
           /\ d - c \in {1, 2}
           /\ d = Len(low) + 1

\* re.fullmatch(r"[0-9\s\-/,:.]+", n)
IsDigitsAndPunctuation(n) ==
    /\ n # <<>>
    /\ \A i \in 1..Len(n) :
          IsDigit(n[i]) \/ IsSpace(n[i]) \/ n[i] \in {"-", "/", ",", ":", "."}

_looks_like_restaurant_name(name) ==
    IF ~Truthy(name) THEN FALSE
    ELSE LET n   == _strip_leading_numbering(Strip(name))
             low == Lower(n)
         IN  /\ Len(n) >= 2
             /\ Len(n) <= 80
             /\ low \notin _REJECT_EXACT
             /\ ~IsMonthDay(low)
             /\ \A i \in 1..Len(RejectedStarts) : ~StartsWith(low, RejectedStarts[i])
             /\ ~AnyIn(_BAD_NAME_FRAGMENTS, low)
             /\ ~IsDigitsAndPunctuation(n)

(***************************************************************************)
(* Claims about compute_heat                                               *)
(***************************************************************************)
\* C1: after compute_heat every entry's heat_score is an integer of 0..100,
\* whatever the sources, the blurbs, last_month_names and the weights.
C1_HeatScoreBounded ==
    pc = "scored" => \A i \in 1..Len(merged) : merged[i].heat_score \in 0..100

\* C1's case: under weights whose bonuses alone exceed 100 an entry of both
\* publishers was scored 100, or under negative weights an entry was scored 0.
C1_Witness ==
    /\ pc = "scored"
    /\ \E i \in 1..Len(merged) :
          /\ Range(merged[i].sources) = {"Eater", "Resy"}
          /\ \/ /\ WEIGHTS.both_sources_bonus + WEIGHTS.carried_over_bonus > 100
                /\ merged[i].heat_score = 100
             \/ /\ WEIGHTS.both_sources_bonus + WEIGHTS.new_this_month_bonus < 0
                /\ merged[i].why_hot = None
                /\ merged[i].heat_score = 0

\* the entries C2 is about: of both publishers, with "sold out" in the blurb,
\* and a name last month's list does not hold
SoldOutNewInBoth(e) ==
    /\ Range(e.sources) = {"Eater", "Resy"}
    /\ e.why_hot # None
    /\ Contains(<<"s","o","l","d"," ","o","u","t">>, Lower(e.why_hot))
    /\ \A i \in 1..Len(last_month_names) :
          _norm_name(last_month_names[i]) # _norm_name(e.name)

\* the highest score of the buckets one of whose keywords the text holds
HighestBucket(buckets, text) ==
    LET hit == {buckets[i].score : i \in {j \in 1..Len(buckets) :
                                            AnyIn(buckets[j].kws, Lower(text))}}
    IN  IF hit = {} THEN 0 ELSE CHOOSE m \in hit : \A h \in hit : h <= m

\* C2, as stated: under the shipped configuration such an entry is scored
\* min(100, both_sources_bonus + new_this_month_bonus + language_intensity_max
\* + reservation_scarcity_max).
C2_SoldOutScoresCeilings ==
    (pc = "scored" /\ WEIGHTS = ShippedWeights) =>
        \A i \in 1..Len(merged) :
            SoldOutNewInBoth(merged[i]) =>
                merged[i].heat_score =
                    Min(100, WEIGHTS.both_sources_bonus + WEIGHTS.new_this_month_bonus
                             + WEIGHTS.language_intensity_max
                             + WEIGHTS.reservation_scarcity_max)

\* C2, amended: such an entry is scored min(100, both_sources_bonus +
\* new_this_month_bonus + I + S), where I and S are the highest intensity and
\* scarcity buckets among the blurb's keywords, each capped at its ceiling.
\* "sold out" is a keyword of the 12-point intensity bucket and of no scarcity
\* bucket: the score is 72 for a blurb with no other keyword, and at most 90.
C2_SoldOutScoresBuckets ==
    (pc = "scored" /\ WEIGHTS = ShippedWeights) =>
        \A i \in 1..Len(merged) :
            SoldOutNewInBoth(merged[i]) =>
                LET I == HighestBucket(INTENSITY_KEYWORDS, merged[i].why_hot)
                    S == HighestBucket(SCARCITY_KEYWORDS, merged[i].why_hot)
                IN  /\ merged[i].heat_score =
                          Min(100, WEIGHTS.both_sources_bonus
                                   + WEIGHTS.new_this_month_bonus
                                   + Min(I, WEIGHTS.language_intensity_max)
                                   + Min(S, WEIGHTS.reservation_scarcity_max))
                    /\ merged[i].heat_score \in 72..90
                    /\ (I = 12 /\ S = 0) => merged[i].heat_score = 72

\* C2's case: a new entry of both publishers whose blurb holds "sold out" and
\* no other keyword was scored under the shipped weights.
C2_Witness ==
    /\ pc = "scored"
    /\ WEIGHTS = ShippedWeights
    /\ \E i \in 1..Len(merged) :
          /\ SoldOutNewInBoth(merged[i])
          /\ merged[i].heat_score = 72

(***************************************************************************)
(* Documents                                                               *)
(*                                                                         *)
(* A parsed page (the BeautifulSoup tree of fetch_html's text) is the      *)
(* sequence of its elements in document order, the order of                *)
(* Tag.next_elements.  An element is a record [name, depth, text, attrs]:  *)
(* its tag name, its nesting depth (the body is element 1, at depth 0),    *)
(* the string that is its first child (<<>> if it has none) and its        *)
(* attributes, a set of <<attribute, text>> pairs.  Index 0 stands for the  *)
(* soup itself.                                                            *)
(***************************************************************************)
El(name, depth, text, attrs) ==
    [name |-> name, depth |-> depth, text |-> text, attrs |-> attrs]

\* tag.get(a)
Get(el, a) ==
    IF \E p \in el.attrs : p[1] = a
    THEN (CHOOSE p \in el.attrs : p[1] = a)[2]
    ELSE None

\* the indices lo..hi in ascending order
IndexSeq(lo, hi) == IF hi < lo THEN <<>> ELSE [k \in 1..(hi - lo + 1) |-> lo + k - 1]

\* the index of the last descendant of element i (i itself if it has none)
SubtreeEnd(doc, i) ==
    LET later == {j \in (i + 1)..Len(doc) : i # 0 /\ doc[j].depth <= doc[i].depth}
    IN  IF later = {} THEN Len(doc)
        ELSE (CHOOSE j \in later : \A k \in later : j <= k) - 1

\* tag.find_all(names): the descendants of element i with one of the names
find_all(doc, i, names) ==
    SelectSeq(IndexSeq(i + 1, SubtreeEnd(doc, i)), LAMBDA j : doc[j].name \in names)

\* tag.parents, without the html element and the soup (they have no name
\* the program looks for, and no class)
Parents(doc, i) == {j \in 1..(i - 1) : SubtreeEnd(doc, j) >= i}

\* the first position >= i of s that holds one of the characters (Len(s)+1 if none)
RECURSIVE FindChar(_, _, _)
FindChar(s, i, chars) ==
    IF i <= Len(s) /\ s[i] \notin chars THEN FindChar(s, i + 1, chars) ELSE i

\* s.split(sep)
RECURSIVE Split(_, _)
Split(s, sep) ==
    LET c == FindChar(s, 1, {sep})
    IN  IF c > Len(s) THEN <<s>>
        ELSE <<SubSeq(s, 1, c - 1)>> \o Split(Drop(s, c + 1), sep)

\* " ".join of the stripped, non-empty strings
RECURSIVE JoinText(_)
JoinText(pieces) ==
    IF pieces = <<>> THEN <<>>
    ELSE LET head == Strip(Head(pieces))
             rest == JoinText(Tail(pieces))
         IN  IF head = <<>> THEN rest
             ELSE IF rest = <<>> THEN head
             ELSE head \o <<" ">> \o rest

\* tag.get_text(" ", strip=True)
get_text(doc, i) ==
    LET sub == IndexSeq(i, SubtreeEnd(doc, i))
    IN  JoinText([k \in DOMAIN sub |-> doc[sub[k]].text])

\* " ".join(tag.get("class", [])).lower()
RECURSIVE JoinSpace(_)
JoinSpace(words) ==
    IF words = <<>> THEN <<>>
    ELSE IF Len(words) = 1 THEN words[1]
    ELSE words[1] \o <<" ">> \o JoinSpace(Tail(words))

\* tag.get("class", []): the class names of the element
Classes(el) ==
    IF Get(el, "class") = None THEN <<>>
    ELSE SelectSeq(Split(Get(el, "class"), " "), LAMBDA c : c # <<>>)

ClassText(el) == Lower(JoinSpace(Classes(el)))

\* the concatenation of a sequence of sequences
RECURSIVE Concat(_)
Concat(seqs) == IF seqs = <<>> THEN <<>> ELSE Head(seqs) \o Concat(Tail(seqs))

\* any(x in text for x in fragments)
AnyFragmentIn(fragments, text) == \E k \in DOMAIN fragments : Contains(fragments[k], text)

(***************************************************************************)
(* URLs (urllib.parse), for the URLs of the form scheme://host/path?query  *)
(* and the references /path, //host/path and path                          *)
(***************************************************************************)
\* the position of the ":" that ends the scheme of u, 0 if u has no scheme
SchemeEnd(u) ==
    LET c == FindChar(u, 1, {":", "/", "?", "#"})
    IN  IF c > 1 /\ c <= Len(u) /\ u[c] = ":" THEN c ELSE 0

\* urlparse(u).scheme
UrlScheme(u) == Lower(SubSeq(u, 1, SchemeEnd(u) - 1))

\* the position one past the host of u (the host follows "//")
HostEnd(u) ==
    LET a == SchemeEnd(u) + 1
    IN  IF StartsWith(Drop(u, a), <<"/", "/">>)
        THEN FindChar(u, a + 2, {"/", "?", "#"}) ELSE a

\* urlparse(u).netloc
UrlNetloc(u) ==
    LET a == SchemeEnd(u) + 1
    IN  IF HostEnd(u) = a THEN <<>> ELSE SubSeq(u, a + 2, HostEnd(u) - 1)

\* urlparse(u).path
UrlPath(u) == SubSeq(u, HostEnd(u), FindChar(u, HostEnd(u), {"?", "#"}) - 1)

\* urljoin(base, href) for a base without a path, and a href that has no
\* scheme or else has a host or a scheme that takes no relative references
urljoin(base, href) ==
    IF UrlScheme(href) \in {<<"h", "t", "t", "p">>, <<"h", "t", "t", "p", "s">>}
    THEN UrlScheme(href) \o Drop(href, SchemeEnd(href))
    ELSE IF SchemeEnd(href) # 0 THEN href
    ELSE IF StartsWith(href, <<"/", "/">>) THEN SubSeq(base, 1, SchemeEnd(base)) \o href
    ELSE IF Head(href) \in {"/", "?", "#"} THEN base \o href
    ELSE base \o <<"/">> \o href

_abs_url(base, href) ==
    IF href = None \/ href = <<>> THEN None ELSE urljoin(base, href)

(***************************************************************************)
(* Resy heading cleanup                                                    *)
(***************************************************************************)
\* hay.endswith(suffix)
EndsWith(hay, suffix) ==
    /\ Len(suffix) <= Len(hay)
    /\ \A j \in 1..Len(suffix) : hay[Len(hay) - Len(suffix) + j] = suffix[j]

\* re.sub(r"\s+map\s*$", "", text, flags=re.I): the match starts with the
\* whitespace run before the closing "map"
StripMapSuffix(text) ==
    LET e == SkipSpacesBack(text, Len(text))
    IN  IF e >= 4 /\ Lower(SubSeq(text, e - 2, e)) = <<"m", "a", "p">> /\ IsSpace(text[e - 3])
        THEN SubSeq(text, 1, SkipSpacesBack(text, e - 3))
        ELSE text

\* [A-Za-z] and [A-Za-z '&.-]
IsLetter(c) == c \in UpperSet \cup LowerSet
IsAreaChar(c) == IsLetter(c) \/ c \in {" ", "'", "&", ".", "-"}

\* re.sub(r"\s+[A-Za-z][A-Za-z '&.-]{1,40}\s+map\s*$", "", text, flags=re.I):
\* the leftmost whitespace run that is followed by a letter, 1 to 40 area
\* characters, whitespace and the closing "map"
StripAreaMapSuffix(text) ==
    LET e == SkipSpacesBack(text, Len(text))
        MatchesAt(s) ==
            LET j == SkipSpaces(text, s)
            IN  /\ IsSpace(text[s])
                /\ j <= e - 3
                /\ IsLetter(text[j])
                /\ \E m \in (j + 1)..(e - 4) :
                       /\ m - j <= 40
                       /\ \A k \in (j + 1)..m : IsAreaChar(text[k])
                       /\ \A k \in (m + 1)..(e - 3) : IsSpace(text[k])
        starts == {s \in 1..Len(text) :
                       /\ e >= 4
                       /\ Lower(SubSeq(text, e - 2, e)) = <<"m", "a", "p">>
                       /\ MatchesAt(s)}
    IN  IF starts = {} THEN text
        ELSE SubSeq(text, 1, (CHOOSE s \in starts : \A q \in starts : s <= q) - 1)

\* the test of lines 128-133 on a span, a or small element of the heading
IsMapUi(doc, t) ==
    LET txt_low == Lower(get_text(doc, t))
        aria == Get(doc[t], "aria-label")
        aria_low == IF aria = None THEN <<>> ELSE Lower(aria)
        cls_low == ClassText(doc[t])
    IN  \/ txt_low \in {<<"m", "a", "p">>, <<"v","i","e","w"," ","m","a","p">>}
        \/ EndsWith(txt_low, <<" ","m","a","p">>)
        \/ Contains(<<"m", "a", "p">>, aria_low)
        \/ Contains(<<"m", "a", "p">>, cls_low) /\ Len(txt_low) <= 20

\* the strings of the elements j..last that are left in the heading once the
\* map elements are decomposed (a decomposed element loses its subtree)
RECURSIVE KeptTexts(_, _, _)
KeptTexts(doc, j, last) ==
    IF j > last THEN <<>>
    ELSE IF doc[j].name \in {"span", "a", "small"} /\ IsMapUi(doc, j)
         THEN KeptTexts(doc, SubtreeEnd(doc, j) + 1, last)
         ELSE <<doc[j].text>> \o KeptTexts(doc, j + 1, last)

\* The copy h2 of the heading is found again in its own markup, so the
\* branch of lines 113-116 is not taken.
_resy_clean_heading_text(doc, h) ==
    LET text0 == JoinText(<<doc[h].text>> \o KeptTexts(doc, h + 1, SubtreeEnd(doc, h)))
        text1 == Strip(StripMapSuffix(text0))
    IN  Strip(StripAreaMapSuffix(text1))

(***************************************************************************)
(* Parsing helpers: slices and links                                       *)
(***************************************************************************)
\* The elements after start and before end; end = 0 stands for None, and
\* the walk then runs to the end of the page.
_collect_between(doc, start, end) ==
    IndexSeq(start + 1, IF end = 0 THEN Len(doc) ELSE end - 1)

_entry_slice_nodes_from_list(doc, headings, idx) ==
    _collect_between(doc, headings[idx],
                     IF idx + 1 <= Len(headings) THEN headings[idx + 1] ELSE 0)

\* the first text of seq, None if it is empty
First(seq) == IF seq = <<>> THEN None ELSE seq[1]

\* the tests of lines 176-185 on the paragraph p
IsRealParagraph(doc, p) ==
    LET txt == get_text(doc, p)
        low == Strip(Lower(txt))
    IN  /\ txt # <<>>
        /\ low \notin {<<"v","i","e","w"," ","i","n"," ","l","i","s","t">>, <<"v","i","e","w"," ","i","n"," ","m","a","p">>, <<"m", "a", "p">>, <<"r","e","a","d"," ","m","o","r","e">>}
        /\ ~ \E pre \in {<<"v","i","e","w"," ","i","n"," ">>, <<"s","e","e"," ","m","o","r","e">>, <<"d","i","s","c","o","v","e","r"," ","m","o","r","e">>} : StartsWith(low, pre)
        /\ Len(txt) >= 40

\* the node itself if it is a paragraph, then its descendants of that name
SelfAndDescendants(doc, node, name) ==
    (IF doc[node].name = name THEN <<node>> ELSE <<>>) \o find_all(doc, node, {name})

RECURSIVE _first_real_paragraph_from_slice(_, _)
_first_real_paragraph_from_slice(doc, nodes) ==
    IF nodes = <<>> THEN None
    ELSE LET real == SelectSeq(SelfAndDescendants(doc, Head(nodes), "p"),
                               LAMBDA p : IsRealParagraph(doc, p))
         IN  IF real # <<>> THEN get_text(doc, real[1])
             ELSE _first_real_paragraph_from_slice(doc, Tail(nodes))

_is_useful_outbound(href, base_domain) ==
    /\ StartsWith(UrlScheme(href), <<"h","t","t","p">>)
    /\ ~ EndsWith(UrlNetloc(href), base_domain)

\* _abs_url of the a elements with a href below the node: node.find_all("a", href=True)
AnchorUrls(doc, node, base_url) ==
    LET anchors == SelectSeq(find_all(doc, node, {"a"}),
                             LAMBDA a : Get(doc[a], "href") # None)
    IN  [k \in DOMAIN anchors |-> _abs_url(base_url, Get(doc[anchors[k]], "href"))]

\* hrefs of lines 204-209
SliceLinks(doc, nodes, base_url) ==
    SelectSeq(Concat([k \in DOMAIN nodes |-> AnchorUrls(doc, nodes[k], base_url)]),
              LAMBDA u : u # None /\ StartsWith(u, <<"h","t","t","p">>))

_pick_link_from_slice(doc, nodes, base_url, base_domain) ==
    LET hrefs == SliceLinks(doc, nodes, base_url)
        booking == First(SelectSeq(hrefs, LAMBDA u : Contains(<<"r","e","s","y",".","c","o","m">>, u)
                                              \/ Contains(<<"o","p","e","n","t","a","b","l","e",".","c","o","m">>, u)))
        outbound == First(SelectSeq(hrefs, LAMBDA u : _is_useful_outbound(u, base_domain)))
    IN  IF booking # None THEN booking
        ELSE IF outbound # None THEN outbound
        ELSE IF hrefs # <<>> THEN hrefs[1] ELSE None

(***************************************************************************)
(* Image helpers (img/srcset/picture)                                      *)
(***************************************************************************)
\* the first of the values that is neither None nor empty, None if none is
RECURSIVE FirstTruthy(_)
FirstTruthy(vals) ==
    IF vals = <<>> THEN None
    ELSE IF Truthy(Head(vals)) THEN Head(vals) ELSE FirstTruthy(Tail(vals))

\* the last URL of a srcset: candidates[-1] of lines 234-240 (None if empty)
LastOfSrcset(srcset) ==
    LET parts == Split(srcset, ",")
        urls == [k \in DOMAIN parts |-> Strip(Head(Split(Strip(parts[k]), " ")))]
        candidates == SelectSeq(urls, LAMBDA u : u # <<>>)
    IN  IF candidates = <<>> THEN None ELSE candidates[Len(candidates)]

_img_src_from_tag(img) ==
    LET v == FirstTruthy(<<Get(img, "src"), Get(img, "data-src"), Get(img, "data-lazy-src"),
                           Get(img, "data-original"), Get(img, "data-url")>>)
        srcset == FirstTruthy(<<Get(img, "srcset"), Get(img, "data-srcset")>>)
    IN  IF v # None THEN Strip(v)
        ELSE IF srcset # None THEN LastOfSrcset(srcset)
        ELSE None

_src_from_source_tag(source) ==
    LET srcset == FirstTruthy(<<Get(source, "srcset"), Get(source, "data-srcset")>>)
    IN  IF srcset = None THEN None ELSE LastOfSrcset(srcset)

\* The <<URL, alt>> pairs the pickers read below one element: the first
\* source of its first picture (with no alt), then its img descendants
\* (lines 303-321 and 522-543).
ElementImages(doc, el, base_url) ==
    LET pics == find_all(doc, el, {"picture"})
        srcs == IF pics = <<>> THEN <<>> ELSE find_all(doc, pics[1], {"source"})
        su   == IF srcs = <<>> THEN None ELSE _src_from_source_tag(doc[srcs[1]])
        su2  == _abs_url(base_url, su)
        imgs == find_all(doc, el, {"img"})
        read == [k \in DOMAIN imgs |->
                    LET u   == _img_src_from_tag(doc[imgs[k]])
                        alt == Get(doc[imgs[k]], "alt")
                    IN  <<_abs_url(base_url, u), IF alt = None THEN <<>> ELSE alt>>]
    IN  (IF su2 = None THEN <<>> ELSE << <<su2, <<>>>> >>)
        \o SelectSeq(read, LAMBDA c : c[1] # None)

SliceImages(doc, nodes, base_url) ==
    Concat([k \in DOMAIN nodes |-> ElementImages(doc, nodes[k], base_url)])

(***************************************************************************)
(* Eater image picking                                                     *)
(***************************************************************************)
_EATER_STOP_WORDS ==
    { <<"s","e","e"," ","m","o","r","e">>, <<"r","e","l","a","t","e","d">>, <<"m","o","r","e"," ","m","a","p","s">>, <<"m","o","r","e"," ","m","a","p","s"," ","i","n"," ","e","a","t","e","r"," ","n","y">>,
      <<"y","o","u"," ","m","i","g","h","t"," ","a","l","s","o"," ","l","i","k","e">> }

_hit_stop_boundary(doc, node) ==
    \/ doc[node].name \in {"aside", "footer", "nav"}
    \/ \E w \in _EATER_STOP_WORDS : Contains(w, Lower(get_text(doc, node)))

\* score_url of lines 281-291
EaterImageScore(u, alt, name_norm) ==
    LET u_low == Lower(u)
    IN  (IF name_norm # <<>> /\ Contains(name_norm, _norm_name(alt)) THEN 50 ELSE 0)
        - (IF \E bad \in { <<"l","o","g","o">>, <<"i","c","o","n">>, <<"a","v","a","t","a","r">>, <<"s","p","i","n","n","e","r">>,
                           <<"p","l","a","c","e","h","o","l","d","e","r">>, <<"s","p","r","i","t","e">> } : Contains(bad, u_low)
           THEN 40 ELSE 0)
        - (IF EndsWith(u_low, <<".","s","v","g">>) THEN 30 ELSE 0)

_pick_image_from_slice(doc, nodes, base_url, restaurant_name, max_tags_to_scan, stop_on_modules) ==
    LET name_norm == _norm_name(restaurant_name)
        stops == {k \in DOMAIN nodes :
                      \/ k > max_tags_to_scan
                      \/ stop_on_modules /\ _hit_stop_boundary(doc, nodes[k])}
        scanned == IF stops = {} THEN nodes
                   ELSE SubSeq(nodes, 1, (CHOOSE k \in stops : \A q \in stops : k <= q) - 1)
        candidates == SliceImages(doc, scanned, base_url)
        score(k) == EaterImageScore(candidates[k][1], candidates[k][2], name_norm)
    IN  IF candidates = <<>> THEN None
        ELSE candidates[CHOOSE k \in DOMAIN candidates :
                            \A q \in DOMAIN candidates :
                                /\ score(q) <= score(k)
                                /\ (q < k => score(q) < score(k))][1]

(***************************************************************************)
(* Resy URL gating + strict image picking                                  *)
(***************************************************************************)
_is_resy_restaurant_booking_url(url) ==
    LET u == Lower(url)
        reject_fragments ==
            { <<"r","e","s","y","-","o","s">>, <<"/", "o", "s">>, <<"h","e","l","p">>, <<"p","r","i","v","a","c","y">>, <<"t","e","r","m","s">>, <<"c","o","o","k","i","e">>,
              <<"a","c","c","e","s","s","i","b","i","l","i","t","y">>, <<"/","a","b","o","u","t">>, <<"/","c","a","r","e","e","r","s">>, <<"/","p","r","e","s","s">>,
              <<"/","f","o","r","-","r","e","s","t","a","u","r","a","n","t","s">>, <<"/","r","e","q","u","e","s","t","-","a","-","d","e","m","o">>, <<"p","r","i","c","i","n","g">>, <<"f","e","a","t","u","r","e","s">>,
              <<"d","a","s","h","b","o","a","r","d">>, <<"o","v","e","r","v","i","e","w">>, <<"/","g","i","f","t">>, <<"/","g","i","f","t","s">>, <<"/","c","r","e","d","i","t">> }
        bad_slugs ==
            { <<"s","e","a","r","c","h">>, <<"n","e","a","r","b","y">>, <<"n","e","i","g","h","b","o","r","h","o","o","d","s">>, <<"g","u","i","d","e","s">>, <<"c","o","l","l","e","c","t","i","o","n","s">>,
              <<"e","v","e","n","t","s">>, <<"t","o","p","-","r","a","t","e","d">>, <<"t", "o", "p">>, <<"n", "e", "w">>, <<"n","e","w","-","o","n","-","r","e","s","y">>,
              <<"r","e","s","t","a","u","r","a","n","t","s">>, <<"d","i","n","i","n","g">>, <<"a","b","o","u","t">> }
        path == Lower(UrlPath(url))
        parts == SelectSeq(Split(path, "/"), LAMBDA p : p # <<>>)
    IN  IF url = None \/ url = <<>> THEN FALSE
        ELSE IF Contains(<<"o","p","e","n","t","a","b","l","e",".","c","o","m">>, u) THEN TRUE
        ELSE IF ~ Contains(<<"r","e","s","y",".","c","o","m">>, u) THEN FALSE
        ELSE IF \E frag \in reject_fragments : Contains(frag, u) THEN FALSE
        ELSE IF Contains(<<"/", "r", "/">>, path) THEN TRUE
        ELSE IF \E seg \in { <<"/","v","e","n","u","e","s","/">>, <<"/","p","l","a","c","e","s","/">>, <<"/","r","e","s","t","a","u","r","a","n","t","s","/">> } :
                    Contains(seg, path) THEN TRUE
        ELSE IF StartsWith(path, <<"/","c","i","t","i","e","s","/">>) /\ Len(parts) >= 3
             THEN parts[3] \notin bad_slugs
        ELSE FALSE

_is_legit_resy_hitlist_photo(u) ==
    StartsWith(Strip(Lower(u)), <<"h","t","t","p","s",":","/","/","i","m","a","g","e",".","r","e","s","y",".","c","o","m","/">>)

_RESY_IMAGE_STOP_PHRASES ==
    << <<"d","i","s","c","o","v","e","r"," ","m","o","r","e">>, <<"c","r","a","v","i","n","g"," ","s","o","m","e","t","h","i","n","g"," ","e","l","s","e">>, <<"c","r","a","v","i","n","g"," ","s","o","m","e","t","h","i","n","g"," ","e","l","s","e","?">> >>

\* score of lines 477-504
ResyPhotoScore(u, alt, name_norm) ==
    LET u_low == Lower(u)
        hard_reject ==
            { <<"s","3",".","a","m","a","z","o","n","a","w","s",".","c","o","m","/","r","e","s","y",".","c","o","m","/","i","m","a","g","e","s","/","s","o","c","i","a","l","/">>, <<"f","a","c","e","b","o","o","k","-","p","r","e","v","i","e","w">>,
              <<"/","s","o","c","i","a","l","/">>, <<"/","i","c","o","n","s","/">>, <<"/","i","c","o","n","/">>, <<"/","l","o","g","o">>, <<"p","l","a","c","e","h","o","l","d","e","r">>,
              <<"s","p","r","i","t","e">>, <<"s","p","i","n","n","e","r">> }
    IN  IF \E x \in hard_reject : Contains(x, u_low) THEN -10000
        ELSE IF ~ _is_legit_resy_hitlist_photo(u_low) THEN -10000
        ELSE IF name_norm # <<>> /\ Contains(name_norm, _norm_name(alt)) THEN 80
        ELSE -20

\* the loop of lines 507-543 scans the elements after the heading up to the
\* next heading that starts with an ordinal or holds a stop phrase, 220 at most
ResyImageScan(doc, h) ==
    LET after == IndexSeq(h + 1, Min(Len(doc), h + 220))
        stops == {k \in DOMAIN after :
                      /\ doc[after[k]].name \in {"h2", "h3", "h4"}
                      /\ LET t == get_text(doc, after[k])
                         IN  \/ _leading_num(t) # -1
                             \/ AnyFragmentIn(_RESY_IMAGE_STOP_PHRASES, Lower(t))}
    IN  IF stops = {} THEN after
        ELSE SubSeq(after, 1, (CHOOSE k \in stops : \A q \in stops : k <= q) - 1)

\* best_score and best_url after the candidates, in their order
RECURSIVE BestPhoto(_, _, _, _)
BestPhoto(cands, name_norm, best_score, best_url) ==
    IF cands = <<>> THEN <<best_score, best_url>>
    ELSE LET u  == Head(cands)[1]
             sc == ResyPhotoScore(u, Head(cands)[2], name_norm)
         IN  IF _is_legit_resy_hitlist_photo(u) /\ sc > best_score
             THEN BestPhoto(Tail(cands), name_norm, sc, u)
             ELSE BestPhoto(Tail(cands), name_norm, best_score, best_url)

_pick_resy_image_for_heading(doc, h, base_url, restaurant_name) ==
    LET best == BestPhoto(SliceImages(doc, ResyImageScan(doc, h), base_url),
                          _norm_name(restaurant_name), -10000, None)
    IN  IF best[1] >= 60 THEN best[2] ELSE None

(***************************************************************************)
(* Source extractors                                                       *)
(*                                                                         *)
(* Positions in a list of headings are Python's, counted from 0; -1 stands *)
(* for the None of stop_idx, last_num_idx and last_num_value.              *)
(***************************************************************************)
score_scope(doc, tag) ==
      6 * Len(find_all(doc, tag, {"p"}))
    + 10 * Len(find_all(doc, tag, {"h2", "h3", "h4"}))
    + 3 * Len(find_all(doc, tag, {"strong", "b"}))
    + (Len(get_text(doc, tag)) \div 1000)

\* the selector list of lines 643-644
MatchesContentSelector(el) ==
    \/ \E c \in Range(Classes(el)) :
           c \in { <<"e","n","t","r","y","-","c","o","n","t","e","n","t">>, <<"p","o","s","t","-","c","o","n","t","e","n","t">>, <<"a","r","t","i","c","l","e","-","c","o","n","t","e","n","t">>,
                   <<"c","o","n","t","e","n","t">>, <<"s","i","n","g","l","e","-","c","o","n","t","e","n","t">>, <<"p","o","s","t","_","_","c","o","n","t","e","n","t">> }
    \/ Get(el, "data-testid") = <<"p","o","s","t","-","c","o","n","t","e","n","t">>

\* candidates of lines 638-648; the body is element 1
ScopeCandidates(doc) ==
    find_all(doc, 0, {"article"})
    \o find_all(doc, 0, {"main"})
    \o SelectSeq(IndexSeq(1, Len(doc)), LAMBDA j : MatchesContentSelector(doc[j]))
    \o <<1>>

\* max(candidates, key=score_scope): the first candidate of the greatest score
ResyScope(doc) ==
    LET candidates == ScopeCandidates(doc)
        score(k) == score_scope(doc, candidates[k])
    IN  candidates[CHOOSE k \in DOMAIN candidates :
                       \A q \in DOMAIN candidates :
                           /\ score(q) <= score(k)
                           /\ (q < k => score(q) < score(k))]

in_nav(doc, tag) ==
    \E p \in Parents(doc, tag) :
        \/ doc[p].name \in {"header", "footer", "nav", "aside"}
        \/ AnyFragmentIn(<< <<"f","o","o","t","e","r">>, <<"n", "a", "v">>, <<"m","e","n","u">>, <<"h","e","a","d","e","r">>,
                            <<"c","o","o","k","i","e">>, <<"c","o","n","s","e","n","t">> >>, ClassText(doc[p]))

RESY_STOP_PHRASES ==
    << <<"d","i","s","c","o","v","e","r"," ","m","o","r","e">>, <<"r","e","c","o","m","m","e","n","d","e","d">>, <<"m","o","r","e"," ","f","r","o","m"," ","r","e","s","y">>, <<"r","e","l","a","t","e","d">>,
       <<"y","o","u"," ","m","i","g","h","t"," ","a","l","s","o"," ","l","i","k","e">>, <<"c","r","a","v","i","n","g"," ","s","o","m","e","t","h","i","n","g"," ","e","l","s","e">>,
       <<"c","r","a","v","i","n","g"," ","s","o","m","e","t","h","i","n","g"," ","e","l","s","e","?">> >>

is_stop_heading(doc, h) == AnyFragmentIn(RESY_STOP_PHRASES, Lower(get_text(doc, h)))

is_numbered_restaurant_heading(doc, h) ==
    LET raw_text == _resy_clean_heading_text(doc, h)
    IN  /\ _leading_num(raw_text) # -1
        /\ _looks_like_restaurant_name(_strip_leading_numbering(raw_text))

headings_all(doc) ==
    SelectSeq(find_all(doc, ResyScope(doc), {"h2", "h3", "h4"}),
              LAMBDA h : ~ in_nav(doc, h))

\* the loop of lines 680-684
StopScan(doc, hs) ==
    LET stops == {k \in DOMAIN hs : is_stop_heading(doc, hs[k])}
    IN  IF stops = {} THEN -1
        ELSE (CHOOSE k \in stops : \A q \in stops : k <= q) - 1

\* the loop of lines 686-693 from the heading at position k on:
\* <<last_num_idx, last_num_value>>
RECURSIVE LastNumScan(_, _, _, _, _)
LastNumScan(doc, hs, k, last_num_idx, last_num_value) ==
    IF k >= Len(hs) THEN <<last_num_idx, last_num_value>>
    ELSE LET n == _leading_num(_resy_clean_heading_text(doc, hs[k + 1]))
         IN  IF /\ is_numbered_restaurant_heading(doc, hs[k + 1])
                /\ n # -1
                /\ (last_num_value = -1 \/ n >= last_num_value)
             THEN LastNumScan(doc, hs, k + 1, k, n)
             ELSE LastNumScan(doc, hs, k + 1, last_num_idx, last_num_value)

\* a variant of lines 695-702 that trusts the numbering alone
end_exclusive_NumberingOnly(stop_idx, last_num_idx, n) ==
    IF last_num_idx # -1 THEN last_num_idx + 1
    ELSE IF stop_idx # -1 THEN stop_idx
    ELSE n

\* lines 695-702, for n headings
end_exclusive(stop_idx, last_num_idx, n) ==
    IF last_num_idx # -1 /\ stop_idx # -1 /\ last_num_idx < stop_idx THEN last_num_idx + 1
    ELSE IF stop_idx # -1 THEN stop_idx
    ELSE IF last_num_idx # -1 THEN last_num_idx + 1
    ELSE n

\* the entry of lines 717-731 for the heading at position i of headings
ResyEntry(doc, headings, i) ==
    LET base_url == <<"h","t","t","p","s",":","/","/","b","l","o","g",".","r","e","s","y",".","c","o","m">>
        h == headings[i + 1]
        name == _strip_leading_numbering(_resy_clean_heading_text(doc, h))
        nodes == _entry_slice_nodes_from_list(doc, headings, i + 1)
        url == _pick_link_from_slice(doc, nodes, base_url, <<"r","e","s","y",".","c","o","m">>)
    IN  Restaurant(name,
                   IF url # None /\ ~ _is_resy_restaurant_booking_url(url) THEN None ELSE url,
                   _pick_resy_image_for_heading(doc, h, base_url, name),
                   _first_real_paragraph_from_slice(doc, nodes),
                   <<"Resy">>)

\* The loop of lines 706-731 over the usable headings: each entry it appends
\* with the position i (line 708) of the heading it was made from.
ResyLoop(doc, headings) ==
    LET taken == SelectSeq(IndexSeq(0, Len(headings) - 1), LAMBDA i :
                     LET raw_text == _resy_clean_heading_text(doc, headings[i + 1])
                     IN  /\ _leading_num(raw_text) # -1
                         /\ _looks_like_restaurant_name(_strip_leading_numbering(raw_text)))
    IN  [k \in DOMAIN taken |->
            [ i |-> taken[k],
              r |-> [ResyEntry(doc, headings, taken[k])
                        EXCEPT !.name = _strip_leading_numbering(@)] ]]

\* The filter of lines 733-740 on the entries of the loop.
ResyCleaned(entries) ==
    SelectSeq(entries, LAMBDA e :
        /\ _looks_like_restaurant_name(e.r.name)
        /\ Lower(e.r.name) \notin _REJECT_EXACT)

\* What line 742 prints and what line 748 returns, from the headings of the
\* scope and the results of the two scans of lines 680-693.
ResyReport(hs, stop_idx, last_num, headings, entries) ==
    [ headings_all  |-> Len(hs),
      stop_idx      |-> stop_idx,
      last_num      |-> last_num[2],
      last_num_idx  |-> last_num[1],
      headings_used |-> Len(headings),
      cleaned       |-> [k \in DOMAIN entries |-> entries[k].r],
      from          |-> [k \in DOMAIN entries |-> entries[k].i] ]

\* Lines 695-748: the usable headings, the loop over them and the filter.
ResyBounded(doc, hs, stop_idx, last_num, headings) ==
    ResyReport(hs, stop_idx, last_num, headings,
               ResyCleaned(ResyLoop(doc, headings)))

\* Lines 680-702: the two scans and the end of the usable range.
ResyScanned(doc, hs, stop_idx, last_num) ==
    ResyBounded(doc, hs, stop_idx, last_num,
                SubSeq(hs, 1, end_exclusive(stop_idx, last_num[1], Len(hs))))

\* The run of extract_resy_hit_list on a page: what line 742 prints, the
\* list it returns and, for each entry of the list, the position i (line
\* 708) of the heading it was made from.
ResyRunOn(doc, hs) ==
    ResyScanned(doc, hs, StopScan(doc, hs), LastNumScan(doc, hs, 0, -1, -1))

ResyRun(doc) == ResyRunOn(doc, headings_all(doc))

extract_resy_hit_list(doc) == ResyRun(doc).cleaned

extract_eater_heatmap(doc) ==
    LET base_url == <<"h","t","t","p","s",":","/","/","n","y",".","e","a","t","e","r",".","c","o","m">>
        articles == find_all(doc, 0, {"article"})
        mains == find_all(doc, 0, {"main"})
        article == IF articles # <<>> THEN articles[1]
                   ELSE IF mains # <<>> THEN mains[1] ELSE 0
        headings == find_all(doc, article, {"h2", "h3"})
        title(i) == _strip_leading_numbering(get_text(doc, headings[i]))
        taken == SelectSeq(IndexSeq(1, Len(headings)), LAMBDA i :
                     LET low == Lower(title(i))
                     IN  /\ _looks_like_restaurant_name(title(i))
                         /\ ~ Contains(<<"r","e","l","a","t","e","d">>, low)
                         /\ ~ Contains(<<"u","p","d","a","t","e","s">>, low)
                         /\ low \notin {<<"s","e","e"," ","m","o","r","e">>, <<"m","o","r","e"," ","m","a","p","s"," ","i","n"," ","e","a","t","e","r"," ","n","y">>}
                         /\ ~ StartsWith(low, <<"m","o","r","e"," ","m","a","p","s">>))
        entry(i) ==
            LET nodes == _entry_slice_nodes_from_list(doc, headings, i)
                venue == First(SelectSeq(
                             Concat([k \in DOMAIN nodes |-> AnchorUrls(doc, nodes[k], base_url)]),
                             LAMBDA u : u # None /\ Contains(<<"n","y",".","e","a","t","e","r",".","c","o","m","/","v","e","n","u","e","/">>, u)))
                picked == IF venue # None THEN venue
                          ELSE _pick_link_from_slice(doc, nodes, base_url, <<"e","a","t","e","r",".","c","o","m">>)
                own == AnchorUrls(doc, headings[i], base_url)
            IN  Restaurant(title(i),
                           IF Truthy(picked) THEN picked
                           ELSE IF own # <<>> THEN own[1] ELSE None,
                           _pick_image_from_slice(doc, nodes, base_url, title(i), 40, TRUE),
                           _first_real_paragraph_from_slice(doc, nodes),
                           <<"Eater">>)
    IN  [k \in DOMAIN taken |-> entry(taken[k])]

(***************************************************************************)
(* The pages of the two sources                                            *)
(*                                                                         *)
(* A Resy page is a body with an article and, in the article, up to        *)
(* MaxBlocks blocks out of ResyBlocks.  A block is given with depths       *)
(* relative to the article's children; the block Sidebar opens a div next  *)
(* to the article, which then holds the blocks after it.                   *)
(***************************************************************************)
SOURCES ==
    << [ name |-> "Resy Hit List (NYC)",
         url  |-> <<"h","t","t","p","s",":","/","/","b","l","o","g",".","r","e","s","y",".","c","o","m","/","t","h","e","-","h","i","t","-","l","i","s","t","/","n","y","c","-","r","e","s","t","a","u","r","a","n","t","s","/">> ],
       [ name |-> "Eater Heatmap (Manhattan)",
         url  |-> <<"h","t","t","p","s",":","/","/","n","y",".","e","a","t","e","r",".","c","o","m","/","m","a","p","s","/","b","e","s","t","-","n","e","w","-","n","y","c","-","r","e","s","t","a","u","r","a","n","t","s","-","h","e","a","t","m","a","p">> ] >>

MaxBlocks == 3

Blurb == <<"S","o","l","d"," ","o","u","t"," ","f","o","r"," ","w","e","e","k","s",":"," ","t","h","e"," ","h","a","r","d","e","s","t"," ","t","a","b","l","e"," ","i","n"," ","t","o","w","n",".">>

FooBlock ==
    << El("h2", 0, <<"1","."," ","F","o","o">>, {}),
       El("p", 0, Blurb, {}),
       El("a", 1, <<"B","o","o","k">>, {<<"href", <<"h","t","t","p","s",":","/","/","r","e","s","y",".","c","o","m","/","c","i","t","i","e","s","/","n","y","/","f","o","o">>>>}),
       El("figure", 0, <<>>, {}),
       El("img", 1, <<>>, {<<"src", <<"h","t","t","p","s",":","/","/","i","m","a","g","e",".","r","e","s","y",".","c","o","m","/","f","o","o",".","j","p","g">>>>, <<"alt", <<"F", "o", "o">>>>}) >>
BarHeading ==
    << El("h2", 0, <<"2","."," ","B","a","r"," ">>, {}),
       El("span", 1, <<"N","o","H","o"," ","m","a","p">>, {<<"class", <<"m", "a", "p">>>>}) >>
OddHeading == << El("h2", 0, <<"3","."," ","?","?">>, {}) >>
StopHeading == << El("h3", 0, <<"R","e","l","a","t","e","d"," ","R","e","s","t","a","u","r","a","n","t","s">>, {}) >>
PlainHeading ==
    << El("h2", 0, <<"N","o","t","e","s">>, {}),
       El("p", 0, <<"V","i","e","w"," ","i","n"," ","m","a","p">>, {}),
       El("nav", 0, <<>>, {}),
       El("h2", 1, <<"4","."," ","B","a","r">>, {}) >>
Sidebar == << El("div", -1, <<>>, {<<"class", <<"m","o","r","e">>>>}) >>

ResyBlocks == {FooBlock, BarHeading, OddHeading, StopHeading, PlainHeading, Sidebar}

\* the elements of the blocks, d levels deeper
Nest(blocks, d) ==
    LET els == Concat(blocks)
    IN  [k \in DOMAIN els |-> [els[k] EXCEPT !.depth = @ + d]]

ResyPages ==
    { <<El("body", 0, <<>>, {}), El("article", 1, <<>>, {})>> \o Nest(blocks, 2) :
          blocks \in StringsUpTo(ResyBlocks, MaxBlocks) }

EaterPages ==
    { <<El("body", 0, <<>>, {}), El("main", 1, <<>>, {}),
        El("h2", 2, <<"F", "o", "o">>, {}),
        El("a", 3, <<>>, {<<"href", <<"/","v","e","n","u","e","/","f","o","o">>>>}),
        El("p", 2, <<"E","v","e","r","y"," ","t","a","b","l","e"," ","i","s"," ","b","o","o","k","e","d",";"," ","w","a","l","k","-","i","n","s"," ","w","a","i","t"," ","f","o","r"," ","h","o","u","r","s",".">>, {}),
        El("figure", 2, <<>>, {}),
        El("img", 3, <<>>, {<<"src", <<"h","t","t","p","s",":","/","/","c","d","n",".","v","o","x","-","c","d","n",".","c","o","m","/","f","o","o",".","j","p","g">>>>, <<"alt", <<"F", "o", "o">>>>}),
        El("h2", 2, <<"B", "a", "r">>, {}) >>,
      <<El("body", 0, <<>>, {}), El("article", 1, <<>>, {}),
        El("h2", 2, <<"?", "?">>, {}),
        El("h2", 2, <<"R","e","l","a","t","e","d">>, {}),
        El("h3", 2, <<"1","."," ","F","o","o">>, {}) >>,
      <<El("body", 0, <<>>, {}),
        El("h2", 1, <<"b", "a", "r">>, {}),
        El("p", 1, <<>>, {}),
        El("a", 2, <<"M","e","n","u">>, {<<"href", <<"h","t","t","p","s",":","/","/","e","x","a","m","p","l","e",".","c","o","m","/","b","a","r">>>>}) >> }

(***************************************************************************)
(* SpecExtract: the loop of main over SOURCES and the merge (lines         *)
(* 1014-1032).  fetch_html returns a page of the source.                   *)
(***************************************************************************)
IsResySource(s) == Contains(<<"r","e","s","y",".","c","o","m">>, s.url) \/ Contains(<<"b","l","o","g",".","r","e","s","y",".","c","o","m">>, s.url)
IsEaterSource(s) == Contains(<<"e","a","t","e","r",".","c","o","m">>, s.url)

PagesOf(s) ==
    IF IsResySource(s) THEN ResyPages
    ELSE IF IsEaterSource(s) THEN EaterPages
    ELSE {<<El("body", 0, <<>>, {})>>}

InitExtract ==
    /\ pc = "sources"
    /\ pages = <<>>
    /\ all_items = <<>>
    /\ log = <<>>
    /\ resy_from = <<>>
    /\ merged = <<>>
    /\ NormIdle
    /\ FetchIdle
    /\ MainIdle
    /\ DedupeIdle
    /\ HeatIdle

\* one round of the loop of lines 1016-1028
FetchAndExtract ==
    /\ pc = "sources"
    /\ Len(pages) < Len(SOURCES)
    /\ LET s == SOURCES[Len(pages) + 1]
       IN  \E html \in PagesOf(s) :
               /\ pages' = Append(pages, html)
               /\ IF IsResySource(s)
                  THEN \E run \in {ResyRun(html)} :
                           /\ all_items' = all_items \o run.cleaned
                           /\ resy_from' = run.from
                           /\ log' = Append(log,
                                  [ headings_all  |-> run.headings_all,
                                    stop_idx      |-> run.stop_idx,
                                    last_num      |-> run.last_num,
                                    last_num_idx  |-> run.last_num_idx,
                                    headings_used |-> run.headings_used,
                                    extracted     |-> Len(run.cleaned) ])
                  ELSE /\ all_items' = all_items \o
                              (IF IsEaterSource(s) THEN extract_eater_heatmap(html) ELSE <<>>)
                       /\ UNCHANGED <<log, resy_from>>
    /\ UNCHANGED <<pc, merged, normVars, dedupeVars, heatVars, fetchVars, mainVars>>

\* lines 1030-1032
MergeAll ==
    /\ pc = "sources"
    /\ Len(pages) = Len(SOURCES)
    /\ \E list \in {dedupe(all_items)} :
           merged' = [k \in DOMAIN list |->
                         [list[k] EXCEPT !.sources =
                              IF Truthy(@) THEN SortedUnion(@, <<>>) ELSE <<>>]]
    /\ pc' = "merged"
    /\ UNCHANGED <<pages, all_items, log, resy_from, normVars, dedupeVars, heatVars, fetchVars, mainVars>>

NextExtract == FetchAndExtract \/ MergeAll

SpecExtract == InitExtract /\ [][NextExtract]_vars

(***************************************************************************)
(* Claims about the extractors                                             *)
(***************************************************************************)
\* C9: once the extracted lists are merged, no entry of the output has an
\* empty normalized name (_norm_name of its name), whatever heading texts
\* the extractors accepted.
C9_NoEmptyNormalizedName ==
    pc = "merged" => \A k \in DOMAIN merged : _norm_name(merged[k].name) # <<>>

\* The two boundaries of the Resy list, read off the page: the position of
\* the first heading with a stop phrase, and the position of the last
\* numbered restaurant heading whose ordinal is not below the ordinal of any
\* numbered restaurant heading before it (-1 if there is none).
OrdinalAt(page, k) == _leading_num(_resy_clean_heading_text(page, headings_all(page)[k + 1]))

FirstStopHeading(page) ==
    LET hs == headings_all(page)
        stops == {k \in 0..(Len(hs) - 1) : is_stop_heading(page, hs[k + 1])}
    IN  IF stops = {} THEN -1 ELSE CHOOSE k \in stops : \A q \in stops : k <= q

LastAcceptedHeading(page) ==
    LET hs == headings_all(page)
        numbered == {k \in 0..(Len(hs) - 1) : is_numbered_restaurant_heading(page, hs[k + 1])}
        accepted == {k \in numbered :
                         \A j \in numbered : j < k => OrdinalAt(page, j) <= OrdinalAt(page, k)}
    IN  IF accepted = {} THEN -1 ELSE CHOOSE k \in accepted : \A q \in accepted : q <= k

\* C10: extract_resy_hit_list uses the headings up to whichever comes first
\* of the first stop-phrase heading (exclusive) and the last heading accepted
\* by the non-decreasing ordinal scan (inclusive); it makes no entry from a
\* heading at or after the first stop-phrase heading, nor from a heading
\* after the last accepted one.  (Stated on the state that follows the
\* extraction; the page, the printed line and resy_from do not change later.)
C10_UsableHeadingRange ==
    (pc = "sources" /\ Len(pages) = 1) =>
        LET stop == FirstStopHeading(pages[1])
            last == LastAcceptedHeading(pages[1])
        IN  /\ (stop # -1 /\ last # -1) => log[1].headings_used = Min(stop, last + 1)
            /\ (stop # -1 /\ last = -1) => log[1].headings_used = stop
            /\ (stop = -1 /\ last # -1) => log[1].headings_used = last + 1
            /\ \A k \in DOMAIN resy_from :
                   /\ resy_from[k] < log[1].headings_used
                   /\ stop # -1 => resy_from[k] < stop
                   /\ last # -1 => resy_from[k] <= last

\* a page whose stop-phrase heading comes first: an entry is made from a
\* heading before it, and a numbered restaurant heading follows it
C10_Witness ==
    /\ pc = "sources"
    /\ Len(pages) = 1
    /\ resy_from # <<>>
    /\ LET stop == FirstStopHeading(pages[1])
           last == LastAcceptedHeading(pages[1])
       IN  /\ stop # -1
           /\ stop < last
           /\ log[1].headings_used = stop

(***************************************************************************)
(* Claims about the order compute_heat leaves                              *)
(***************************************************************************)
\* the entry a of the scored list is the entry b of the list before scoring
ScoredFrom(a, b) ==
    /\ a.name = b.name
    /\ a.url = b.url
    /\ a.image_url = b.image_url
    /\ a.why_hot = b.why_hot
    /\ a.sources = b.sources

\* C13: compute_heat leaves the list ordered by non-increasing heat_score,
\* and entries of equal heat_score in the relative order they had in the
\* list before the call (the sort is stable).
C13_SortedStable ==
    [][pc = "heat" /\ pc' = "scored" =>
           /\ Len(merged') = Len(merged)
           /\ \A k \in 1..(Len(merged') - 1) :
                  merged'[k].heat_score >= merged'[k + 1].heat_score
           /\ \E p \in Permutations(1..Len(merged)) :
                  /\ \A k \in 1..Len(merged) : ScoredFrom(merged'[k], merged[p[k]])
                  /\ \A k, l \in 1..Len(merged) :
                         (k < l /\ merged'[k].heat_score = merged'[l].heat_score)
                             => p[k] < p[l]]_vars

\* C13's case: two different entries were scored alike, and two entries were
\* scored differently
C13_Witness ==
    /\ pc = "scored"
    /\ Len(merged) = MaxHeatItems
    /\ merged[1].heat_score = merged[2].heat_score
    /\ ~ ScoredFrom(merged[1], merged[2])

(***************************************************************************)
(* SpecScenario: extract_resy_hit_list, then compute_heat, on a page of    *)
(* two numbered headings, each followed by a paragraph of 60 characters    *)
(* and a link to resy.com.                                                 *)
(***************************************************************************)
\* paragraphs of 60 characters: a plain one, one with "sold out", one with
\* "walk-in"
ScenarioParagraphs == {
    <<"A"," ","c","o","z","y"," ","c","o","r","n","e","r"," ","r","o","o","m"," ","w","i","t","h"," ","h","a","n","d","m","a","d","e"," ","p","a","s","t","a"," ","a","n","d"," ","a"," ","s","h","o","r","t"," ","w","i","n","e"," ","l","i","s","t">>,
    <<"T","a","b","l","e","s"," ","a","r","e"," ","s","o","l","d"," ","o","u","t"," ","f","o","r"," ","w","e","e","k","s",","," ","s","o"," ","p","l","a","n"," ","w","e","l","l"," ","a","h","e","a","d"," ","o","f"," ","a"," ","v","i","s","i","t">>,
    <<"A"," ","w","a","l","k","-","i","n"," ","c","o","u","n","t","e","r"," ","w","i","t","h"," ","a"," ","s","h","o","r","t"," ","m","e","n","u"," ","o","f"," ","s","k","e","w","e","r","s"," ","a","n","d"," ","c","o","l","d"," ","b","e","e","r">> }

\* the links to resy.com of the venue slug: its page under /cities/, and a
\* page at the top of the site
ScenarioLinks(slug) == {
    <<"h","t","t","p","s",":","/","/","r","e","s","y",".","c","o","m","/","c","i","t","i","e","s","/","n","y","/">> \o slug,
    <<"h","t","t","p","s",":","/","/","r","e","s","y",".","c","o","m","/">> \o slug }

\* a heading, its paragraph and its link, the link inside the paragraph
\* (nested = 1) or after it (nested = 0)
ScenarioBlock(heading, paragraph, link, nested) ==
    << El("h2", 1, heading, {}),
       El("p", 1, paragraph, {}),
       El("a", 1 + nested, <<>>, {<<"href", link>>}) >>

ScenarioPages ==
    { <<El("body", 0, <<>>, {})>>
          \o ScenarioBlock(<<"1","."," ","F","o","o">>, p1, l1, nested)
          \o ScenarioBlock(<<"2","."," ","B","a","r">>, p2, l2, nested) :
        p1 \in ScenarioParagraphs, p2 \in ScenarioParagraphs,
        l1 \in ScenarioLinks(<<"f", "o", "o">>), l2 \in ScenarioLinks(<<"b", "a", "r">>),
        nested \in {0, 1} }

InitScenario ==
    /\ pc = "scenario"
    /\ pages \in {<<page>> : page \in ScenarioPages}
    /\ all_items = <<>>
    /\ log = <<>>
    /\ resy_from = <<>>
    /\ merged = <<>>
    /\ WEIGHTS = ShippedWeights
    /\ last_month_names \in {<<>>, <<<<"F", "o", "o">>>>}
    /\ NormIdle
    /\ FetchIdle
    /\ MainIdle
    /\ DedupeIdle

\* extract_resy_hit_list on the page, then compute_heat on what it returned
ExtractAndScore ==
    /\ pc = "scenario"
    /\ \E list \in {extract_resy_hit_list(pages[1])} :
           /\ all_items' = list
           /\ merged' = compute_heat(list, last_month_names, WEIGHTS)
    /\ pc' = "scenario scored"
    /\ UNCHANGED <<pages, log, resy_from, normVars, dedupeVars, heatVars, fetchVars, mainVars>>

NextScenario == ExtractAndScore

SpecScenario == InitScenario /\ [][NextScenario]_vars

(***************************************************************************)
(* Claims about the scenario                                               *)
(***************************************************************************)
\* the paragraph and the link that follow the k-th heading of the page
ScenarioParagraphOf(page, k) == page[3 * k].text
ScenarioLinkOf(page, k) == Get(page[3 * k + 1], "href")

\* the scored list holds an entry of that name, blurb and url, of difficulty
\* Moderate and with the tip for Resy
ScenarioEntry(list, name, blurb, url) ==
    \E i \in 1..Len(list) :
        /\ list[i].name = name
        /\ list[i].why_hot = blurb
        /\ list[i].url = url
        /\ list[i].res_difficulty = "Moderate"
        /\ list[i].booking_tip = TipResy

\* what C11 says of the scored list of a page
ScenarioOutcome(page, list) ==
    /\ Len(list) = 2
    /\ ScenarioEntry(list, <<"F", "o", "o">>, ScenarioParagraphOf(page, 1), ScenarioLinkOf(page, 1))
    /\ ScenarioEntry(list, <<"B", "a", "r">>, ScenarioParagraphOf(page, 2), ScenarioLinkOf(page, 2))

\* no signal word of reservation_intel is in the paragraph
NoSignalWord(paragraph) ==
    LET text == Lower(paragraph)
    IN  /\ ~ AnyIn(BrutalWords \o HardWords \o EasyWords, text)
        /\ ~ Contains(<<"w","a","l","k","-","i","n">>, text)
        /\ ~ Contains(<<"w","a","l","k"," ","i","n","s">>, text)

\* C11: for "1. Foo" and "2. Bar", each followed by a paragraph of 60
\* characters and a link to resy.com, extraction and scoring yield exactly
\* the entries Foo and Bar, each with its paragraph as blurb and its link as
\* url, difficulty Moderate and the tip for Resy.  (Stated for the pages whose
\* links the booking gate accepts and whose paragraphs hold no signal word of
\* reservation_intel.)
C11_ScenarioOutcome ==
    (/\ pc = "scenario scored"
     /\ \A k \in 1..2 :
            /\ _is_resy_restaurant_booking_url(ScenarioLinkOf(pages[1], k))
            /\ NoSignalWord(ScenarioParagraphOf(pages[1], k)))
        => ScenarioOutcome(pages[1], merged)

(***************************************************************************)
(* SpecFetch: a call of fetch_html (lines 71-95).  A step is one round of  *)
(* its loop: the request, and the sleep that follows a failure it retries. *)
(* Time is counted in tenths of a second.                                  *)
(***************************************************************************)
MaxRetries == 6

\* the exceptions the except clause of lines 84-86 catches
RetryableErrors == {"ReadTimeout", "ConnectTimeout", "ConnectionError"}

\* exceptions of requests.get and raise_for_status it does not catch
OtherErrors == {"HTTPError", "TooManyRedirects"}

\* random.random(), in tenths of a second
Jitters == {0, 5, 9}

\* sleep_s of line 88 without the cap of 60 seconds
sleep_s_Uncapped(attempt, jitter) == 10 * ((2 ^ (attempt - 1)) * 2) + jitter

\* sleep_s of line 88
sleep_s(attempt, jitter) == 10 * Min(60, (2 ^ (attempt - 1)) * 2) + jitter

InitFetch ==
    /\ pc = "fetch_html"
    /\ fetch \in { [ pc       |-> "loop",
                     retries  |-> r,
                     attempt  |-> 1,
                     requests |-> 0,
                     last_err |-> "None",
                     sleeps   |-> <<>>,
                     raised   |-> "None" ] : r \in 1..MaxRetries }
    /\ merged = <<>>
    /\ NormIdle
    /\ DedupeIdle
    /\ HeatIdle
    /\ ExtractIdle
    /\ MainIdle

\* one round of the loop of lines 80-90
FetchAttempt ==
    /\ fetch.pc = "loop"
    /\ fetch.attempt <= fetch.retries
    /\ \E response \in {"ok"} \cup RetryableErrors \cup OtherErrors :
           IF response = "ok"
           THEN fetch' = [fetch EXCEPT !.requests = @ + 1, !.pc = "returned"]
           ELSE IF response \in RetryableErrors
           THEN \E jitter \in Jitters :
                    fetch' = [fetch EXCEPT !.requests = @ + 1,
                                           !.last_err = response,
                                           !.sleeps = Append(@, sleep_s(fetch.attempt, jitter)),
                                           !.attempt = @ + 1]
           ELSE fetch' = [fetch EXCEPT !.requests = @ + 1,
                                       !.pc = "raised",
                                       !.raised = response]
    /\ UNCHANGED <<pc, merged, normVars, dedupeVars, heatVars, extractVars, mainVars>>

\* lines 92-94, after the last round
FetchGiveUp ==
    /\ fetch.pc = "loop"
    /\ fetch.attempt > fetch.retries
    /\ fetch' = [fetch EXCEPT !.pc = "raised",
                              !.raised = IF fetch.last_err # "None"
                                         THEN fetch.last_err ELSE "RuntimeError"]
    /\ UNCHANGED <<pc, merged, normVars, dedupeVars, heatVars, extractVars, mainVars>>

NextFetch == FetchAttempt \/ FetchGiveUp

\* every request and every sleep of fetch_html ends (the request has its
\* timeouts, the sleep is at most 61 seconds), so the loop is not held up
SpecFetch == InitFetch /\ [][NextFetch]_vars /\ WF_vars(NextFetch)

(***************************************************************************)
(* Claims about fetch_html                                                 *)
(***************************************************************************)
\* C18: fetch_html ends after at most `retries` requests.  It returns at the
\* first request that succeeds; every request but the first follows a
\* timeout or connection error and a sleep of min(60, 2 * 2^(attempt-1))
\* seconds plus a jitter of less than a second; an HTTP status error is
\* raised at once; after `retries` failures of the retried kinds it raises the
\* last of them and returns nothing.
C18_FetchEndsWithinRetries ==
    /\ [](pc = "fetch_html" =>
            /\ fetch.requests <= fetch.retries
            /\ fetch.requests <= Len(fetch.sleeps) + 1
            /\ \A k \in DOMAIN fetch.sleeps :
                   LET seconds == IF 2 * 2 ^ (k - 1) > 60 THEN 60 ELSE 2 * 2 ^ (k - 1)
                   IN  fetch.sleeps[k] \in (10 * seconds)..(10 * seconds + 9)
            /\ fetch.pc = "returned" =>
                   /\ fetch.requests = Len(fetch.sleeps) + 1
                   /\ fetch.raised = "None"
            /\ (fetch.pc = "raised" /\ fetch.raised \in OtherErrors) =>
                   fetch.requests = Len(fetch.sleeps) + 1
            /\ (fetch.pc = "raised" /\ fetch.raised \notin OtherErrors) =>
                   /\ fetch.raised \in RetryableErrors
                   /\ fetch.raised = fetch.last_err
                   /\ fetch.requests = fetch.retries
                   /\ Len(fetch.sleeps) = fetch.retries)
    /\ <>(pc = "fetch_html" /\ fetch.pc \in {"returned", "raised"})

\* C18's case: every one of the MaxRetries requests failed with an error of
\* the retried kinds, the last sleeps were capped at 60 seconds, and the last
\* error was raised
C18_Witness ==
    /\ pc = "fetch_html"
    /\ fetch.pc = "raised"
    /\ fetch.retries = MaxRetries
    /\ fetch.requests = MaxRetries
    /\ fetch.raised = "ReadTimeout"
    /\ fetch.sleeps[Len(fetch.sleeps)] >= 600

(***************************************************************************)
(* Steps of main other than extraction, merge and scoring                  *)
(***************************************************************************)
\* load_state: the names of the state file, none if there is no file
load_state_Forgetful(file) == <<>>

load_state(file) == IF file.exists THEN file.last_month_names ELSE <<>>

\* the test of lines 1040, 1053 and 588 that treats no entry as Resy-only
is_resy_only_Never(r) == FALSE

\* r.sources and ("Resy" in r.sources) and ("Eater" not in r.sources)
is_resy_only(r) ==
    /\ Truthy(r.sources)
    /\ "Resy" \in Range(r.sources)
    /\ "Eater" \notin Range(r.sources)

_ok_for_og(url) ==
    LET u == Lower(PyOr(url, <<>>))
    IN  IF Contains(<<"n","y",".","e","a","t","e","r",".","c","o","m","/","v","e","n","u","e","/">>, u) THEN TRUE
        ELSE IF Contains(<<"r","e","s","e","r","v","a","t","i","o","n","s",".","s","a","f","e","g","r","a","p","h",".","c","o","m">>, u) THEN FALSE
        ELSE IF Contains(<<"e","x","p","l","o","r","e","t","o","c","k",".","c","o","m">>, u) THEN FALSE
        ELSE IF Contains(<<"e","a","t","e","r",".","c","o","m">>, u) THEN FALSE
        ELSE IF Contains(<<"b","l","o","g",".","r","e","s","y",".","c","o","m">>, u) THEN FALSE
        ELSE TRUE

\* What og_image can return for a url: the og:image of the page, or None
\* when the page cannot be fetched or has none.
og_image(url) == {None, <<"h","t","t","p","s",":","/","/","c","d","n",".","e","x","a","m","p","l","e",".","c","o","m","/","o","g",".","j","p","g">>}

\* The loop of lines 1036-1048 from the k-th entry on: the list it leaves and
\* the entries og_image was called for.  answers[k] is what og_image returns
\* for the url of the k-th entry.
RECURSIVE OgFill(_, _, _, _, _)
OgFill(list, calls, k, og_filled, answers) ==
    IF k > Len(list) \/ og_filled >= 10 THEN [merged |-> list, calls |-> calls]
    ELSE IF is_resy_only(list[k]) THEN OgFill(list, calls, k + 1, og_filled, answers)
    ELSE IF ~ Truthy(list[k].image_url) /\ Truthy(list[k].url) /\ _ok_for_og(list[k].url)
         THEN IF Truthy(answers[k])
              THEN OgFill([list EXCEPT ![k].image_url = answers[k]],
                          calls \cup {list[k]}, k + 1, og_filled + 1, answers)
              ELSE OgFill(list, calls \cup {list[k]}, k + 1, og_filled, answers)
         ELSE OgFill(list, calls, k + 1, og_filled, answers)

\* the loop of lines 1051-1055
DefaultResyImage(list, default) ==
    [k \in DOMAIN list |->
        IF Truthy(default) /\ is_resy_only(list[k]) /\ ~ Truthy(list[k].image_url)
        THEN [list[k] EXCEPT !.image_url = default]
        ELSE list[k]]

\* str.strip("-")
RECURSIVE StripDashes(_)
StripDashes(s) ==
    IF s # <<>> /\ Head(s) = "-" THEN StripDashes(Tail(s))
    ELSE IF s # <<>> /\ s[Len(s)] = "-" THEN StripDashes(SubSeq(s, 1, Len(s) - 1))
    ELSE s

_slugify(s) ==
    LET dashed == StripDashes([i \in DOMAIN CollapseSpaces(_norm_name(s)) |->
                       IF IsSpace(CollapseSpaces(_norm_name(s))[i]) THEN "-"
                       ELSE CollapseSpaces(_norm_name(s))[i]])
    IN  IF dashed = <<>> THEN <<"i", "m", "g">> ELSE SubSeq(dashed, 1, Min(80, Len(dashed)))

\* The body of the loop of cache_resy_images_for_pages for the entry r: ok is
\* what _cache_remote_image returns if it is called.
CacheEntry(r, ok, default, public_base_url) ==
    IF ~ is_resy_only(r) \/ ~ Truthy(r.image_url) THEN r
    ELSE IF ~ StartsWith(Lower(r.image_url), <<"h","t","t","p","s",":","/","/","i","m","a","g","e",".","r","e","s","y",".","c","o","m","/">>) THEN r
    ELSE IF ok
         THEN [r EXCEPT !.image_url =
                  (IF Truthy(public_base_url) THEN public_base_url \o <<"/">> ELSE <<>>)
                      \o <<"a","s","s","e","t","s","/">> \o <<"r","e","s","y","-">> \o _slugify(r.name) \o <<".","j","p","g">>]
         ELSE [r EXCEPT !.image_url = IF Truthy(default) THEN default ELSE None]

cache_resy_images_for_pages(list, oks, default, public_base_url) ==
    [k \in DOMAIN list |-> CacheEntry(list[k], oks[k], default, public_base_url)]

(***************************************************************************)
(* SpecMain: runs of main (lines 1009-1069), one after the other, over the *)
(* state file the earlier runs left.                                       *)
(***************************************************************************)
MaxRuns == 2

\* the positions of main, in the order of its statements
MainOrder_EmailFirst ==
    << "load_state", "fetch", "dedupe", "og_fill", "default_image", "compute_heat",
       "cache_images", "render", "send_email", "save_state", "finished" >>

MainOrder ==
    << "load_state", "fetch", "dedupe", "og_fill", "default_image", "compute_heat",
       "cache_images", "render", "save_state", "send_email", "finished" >>

\* the position that follows step
Following(step) == MainOrder[1 + CHOOSE k \in DOMAIN MainOrder : MainOrder[k] = step]

\* The environments of a run: DEFAULT_RESY_IMAGE and PUBLIC_BASE_URL as
\* lines 22-23 read them, and what send_email reads.
Environments == {
    [ DEFAULT_RESY_IMAGE |-> <<"h","t","t","p","s",":","/","/","e","x","a","m","p","l","e",".","c","o","m","/","d","e","f","a","u","l","t",".","j","p","g">>,
      PUBLIC_BASE_URL    |-> <<"h","t","t","p","s",":","/","/","p","a","g","e","s",".","e","x","a","m","p","l","e",".","c","o","m","/","h","e","a","t">>,
      DRY_RUN            |-> TRUE,
      SUBSCRIBERS        |-> <<>>,
      SMTP_SECRETS       |-> FALSE ],
    [ DEFAULT_RESY_IMAGE |-> None,
      PUBLIC_BASE_URL    |-> None,
      DRY_RUN            |-> FALSE,
      SUBSCRIBERS        |-> <<"reader@example.com">>,
      SMTP_SECRETS       |-> TRUE ],
    [ DEFAULT_RESY_IMAGE |-> <<"h","t","t","p","s",":","/","/","e","x","a","m","p","l","e",".","c","o","m","/","d","e","f","a","u","l","t",".","j","p","g">>,
      PUBLIC_BASE_URL    |-> None,
      DRY_RUN            |-> FALSE,
      SUBSCRIBERS        |-> <<>>,
      SMTP_SECRETS       |-> TRUE ],
    [ DEFAULT_RESY_IMAGE |-> None,
      PUBLIC_BASE_URL    |-> <<"h","t","t","p","s",":","/","/","p","a","g","e","s",".","e","x","a","m","p","l","e",".","c","o","m","/","h","e","a","t">>,
      DRY_RUN            |-> FALSE,
      SUBSCRIBERS        |-> <<"reader@example.com">>,
      SMTP_SECRETS       |-> FALSE ] }

\* an entry of the Hit List with a booking link and no photo
BazBlock ==
    << El("h2", 0, <<"2","."," ","B","a","z">>, {}),
       El("p", 0, Blurb, {}),
       El("a", 1, <<"B","o","o","k">>, {<<"href", <<"h","t","t","p","s",":","/","/","r","e","s","y",".","c","o","m","/","c","i","t","i","e","s","/","n","y","/","b","a","z">>>>}) >>

\* the pages fetch_html returns in these runs
MainPagesOf(s) ==
    IF IsResySource(s)
    THEN { <<El("body", 0, <<>>, {}), El("article", 1, <<>>, {})>> \o Nest(blocks, 2) :
               blocks \in {<<FooBlock>>, <<FooBlock, BarHeading>>, <<BarHeading>>,
                           <<FooBlock, BazBlock>>} }
    ELSE PagesOf(s)

\* lines 1020-1025
ExtractFrom(s, html) ==
    IF IsResySource(s) THEN extract_resy_hit_list(html)
    ELSE IF IsEaterSource(s) THEN extract_eater_heatmap(html)
    ELSE <<>>

\* nothing of a run has happened
RunStart ==
    /\ pc = "load_state"
    /\ pages = <<>>
    /\ all_items = <<>>
    /\ merged = <<>>
    /\ last_month_names = <<>>
    /\ og_calls = {}
    /\ dist = [rendered |-> FALSE, restaurants |-> <<>>]
    /\ outbox = <<>>
    /\ steps = <<>>

InitMain ==
    /\ RunStart
    /\ run_no = 1
    /\ state_file = [exists |-> FALSE, last_month_names |-> <<>>]
    /\ env \in Environments
    /\ WEIGHTS = ShippedWeights
    /\ log = <<>>
    /\ resy_from = <<>>
    /\ NormIdle
    /\ DedupeIdle
    /\ FetchIdle

\* lines 1010-1012
LoadState ==
    /\ pc = "load_state"
    /\ last_month_names' = load_state(state_file)
    /\ pc' = Following("load_state")
    /\ steps' = Append(steps, "load_state")
    /\ UNCHANGED <<pages, all_items, merged, WEIGHTS, log, resy_from,
                   state_file, env, og_calls, dist, outbox, run_no,
                   normVars, dedupeVars, fetchVars>>

\* One round of the loop of lines 1016-1028: fetch_html returns a page, which
\* is extracted, or raises, which ends main.
FetchSource ==
    /\ pc = "fetch"
    /\ Len(pages) < Len(SOURCES)
    /\ \/ \E html \in MainPagesOf(SOURCES[Len(pages) + 1]) :
              /\ pages' = Append(pages, html)
              /\ all_items' = all_items \o ExtractFrom(SOURCES[Len(pages) + 1], html)
              /\ pc' = IF Len(pages) + 1 = Len(SOURCES) THEN Following("fetch") ELSE "fetch"
              /\ steps' = Append(steps, "fetch")
       \/ /\ pc' = "raised"
          /\ steps' = steps \o <<"fetch", "raise">>
          /\ UNCHANGED <<pages, all_items>>
    /\ UNCHANGED <<merged, WEIGHTS, last_month_names, log, resy_from,
                   state_file, env, og_calls, dist, outbox, run_no,
                   normVars, dedupeVars, fetchVars>>

\* lines 1030-1032
DedupeAll ==
    /\ pc = "dedupe"
    /\ \E list \in {dedupe(all_items)} :
           merged' = [k \in DOMAIN list |->
                         [list[k] EXCEPT !.sources =
                              IF Truthy(@) THEN SortedUnion(@, <<>>) ELSE <<>>]]
    /\ pc' = Following("dedupe")
    /\ steps' = Append(steps, "dedupe")
    /\ UNCHANGED <<pages, all_items, WEIGHTS, last_month_names, log, resy_from,
                   state_file, env, og_calls, dist, outbox, run_no,
                   normVars, dedupeVars, fetchVars>>

\* lines 1034-1048
OgFillAll ==
    /\ pc = "og_fill"
    /\ \E answers \in [DOMAIN merged -> UNION {og_image(merged[k].url) : k \in DOMAIN merged}] :
           /\ \A k \in DOMAIN merged : answers[k] \in og_image(merged[k].url)
           /\ \E filled \in {OgFill(merged, {}, 1, 0, answers)} :
                  /\ merged' = filled.merged
                  /\ og_calls' = filled.calls
    /\ pc' = Following("og_fill")
    /\ steps' = Append(steps, "og_fill")
    /\ UNCHANGED <<pages, all_items, WEIGHTS, last_month_names, log, resy_from,
                   state_file, env, dist, outbox, run_no,
                   normVars, dedupeVars, fetchVars>>

\* lines 1050-1055
DefaultImage ==
    /\ pc = "default_image"
    /\ merged' = DefaultResyImage(merged, env.DEFAULT_RESY_IMAGE)
    /\ pc' = Following("default_image")
    /\ steps' = Append(steps, "default_image")
    /\ UNCHANGED <<pages, all_items, WEIGHTS, last_month_names, log, resy_from,
                   state_file, env, og_calls, dist, outbox, run_no,
                   normVars, dedupeVars, fetchVars>>

\* line 1057
ComputeHeatAll ==
    /\ pc = "compute_heat"
    /\ merged' = compute_heat(merged, last_month_names, WEIGHTS)
    /\ pc' = Following("compute_heat")
    /\ steps' = Append(steps, "compute_heat")
    /\ UNCHANGED <<pages, all_items, WEIGHTS, last_month_names, log, resy_from,
                   state_file, env, og_calls, dist, outbox, run_no,
                   normVars, dedupeVars, fetchVars>>

\* line 1062: _cache_remote_image succeeds or fails for each image
CacheImages ==
    /\ pc = "cache_images"
    /\ \E oks \in [DOMAIN merged -> BOOLEAN] :
           merged' = cache_resy_images_for_pages(merged, oks, env.DEFAULT_RESY_IMAGE,
                                                 env.PUBLIC_BASE_URL)
    /\ pc' = Following("cache_images")
    /\ steps' = Append(steps, "cache_images")
    /\ UNCHANGED <<pages, all_items, WEIGHTS, last_month_names, log, resy_from,
                   state_file, env, og_calls, dist, outbox, run_no,
                   normVars, dedupeVars, fetchVars>>

\* lines 1064-1066: the issue is written, or the template or the directory
\* fails
Render ==
    /\ pc = "render"
    /\ \/ /\ dist' = [rendered |-> TRUE, restaurants |-> merged]
          /\ pc' = Following("render")
          /\ steps' = Append(steps, "render")
       \/ /\ pc' = "raised"
          /\ steps' = steps \o <<"render", "raise">>
          /\ UNCHANGED dist
    /\ UNCHANGED <<pages, all_items, merged, WEIGHTS, last_month_names, log, resy_from,
                   state_file, env, og_calls, outbox, run_no,
                   normVars, dedupeVars, fetchVars>>

\* line 1068
SaveState ==
    /\ pc = "save_state"
    /\ state_file' = [exists |-> TRUE,
                      last_month_names |-> [k \in DOMAIN merged |-> merged[k].name]]
    /\ pc' = Following("save_state")
    /\ steps' = Append(steps, "save_state")
    /\ UNCHANGED <<pages, all_items, merged, WEIGHTS, last_month_names, log, resy_from,
                   env, og_calls, dist, outbox, run_no,
                   normVars, dedupeVars, fetchVars>>

\* line 1069, send_email (lines 969-1006)
SendEmail ==
    /\ pc = "send_email"
    /\ IF env.DRY_RUN
       THEN /\ pc' = Following("send_email")
            /\ steps' = Append(steps, "send_email")
            /\ UNCHANGED outbox
       ELSE IF env.SUBSCRIBERS = <<>> \/ ~ env.SMTP_SECRETS
       THEN /\ pc' = "raised"
            /\ steps' = steps \o <<"send_email", "raise">>
            /\ UNCHANGED outbox
       ELSE \/ /\ outbox' = Append(outbox, env.SUBSCRIBERS)
               /\ pc' = Following("send_email")
               /\ steps' = Append(steps, "send_email")
            \/ /\ pc' = "raised"
               /\ steps' = steps \o <<"send_email", "raise">>
               /\ UNCHANGED outbox
    /\ UNCHANGED <<pages, all_items, merged, WEIGHTS, last_month_names, log, resy_from,
                   state_file, env, og_calls, dist, run_no,
                   normVars, dedupeVars, fetchVars>>

\* the next run of the workflow starts
StartRun ==
    /\ pc \in {"finished", "raised"}
    /\ run_no < MaxRuns
    /\ run_no' = run_no + 1
    /\ pc' = "load_state"
    /\ pages' = <<>>
    /\ all_items' = <<>>
    /\ merged' = <<>>
    /\ last_month_names' = <<>>
    /\ og_calls' = {}
    /\ dist' = [rendered |-> FALSE, restaurants |-> <<>>]
    /\ outbox' = <<>>
    /\ steps' = <<>>
    /\ UNCHANGED <<WEIGHTS, log, resy_from, state_file, env,
                   normVars, dedupeVars, fetchVars>>

NextMain ==
    \/ LoadState
    \/ FetchSource
    \/ DedupeAll
    \/ OgFillAll
    \/ DefaultImage
    \/ ComputeHeatAll
    \/ CacheImages
    \/ Render
    \/ SaveState
    \/ SendEmail
    \/ StartRun

SpecMain == InitMain /\ [][NextMain]_vars


\* the run has ended at a fetch_html that raised
FetchFailed ==
    /\ pc = "raised"
    /\ Len(steps) >= 2
    /\ steps[Len(steps) - 1] = "fetch"

\* what dedupe makes of the entries the pages fetched so far gave
MergedOfFetched == dedupe(all_items)

\* C12: a failure while fetching one source is isolated to that source: a
\* run in which fetch_html raised for one publisher has still rendered an
\* issue, and every entry of the other publisher's page is in it.
C12_FailureIsolated ==
    FetchFailed =>
        /\ dist.rendered
        /\ \A k \in DOMAIN MergedOfFetched :
               \E j \in DOMAIN dist.restaurants :
                   dist.restaurants[j].name = MergedOfFetched[k].name


\* what compute_heat added to r's score for novelty: the score less the
\* bonus for both sources and the two keyword scores (the shipped weights add
\* up to 90 at most, so that the clamp of line 927 changes nothing)
NoveltyBonus(r) ==
    r.heat_score
    - (IF {"Resy", "Eater"} \subseteq Range(r.sources) THEN WEIGHTS.both_sources_bonus ELSE 0)
    - keyword_score(PyOr(r.why_hot, <<>>), INTENSITY_KEYWORDS, WEIGHTS.language_intensity_max)
    - keyword_score(PyOr(r.why_hot, <<>>), SCARCITY_KEYWORDS, WEIGHTS.reservation_scarcity_max)

\* r's normalized name is the normalized name of an entry of the output the
\* state store holds
CarriedOver(r) ==
    /\ state_file.exists
    /\ \E k \in DOMAIN state_file.last_month_names :
           _norm_name(state_file.last_month_names[k]) = _norm_name(r.name)

\* compute_heat has just scored the entries of this run
JustScored == pc = Following("compute_heat")

\* C14: in every run, each entry gets exactly one of the two novelty
\* bonuses: carried_over_bonus iff its normalized name is the normalized name
\* of an entry of the output the run before wrote to the state store,
\* new_this_month_bonus otherwise; with no state (first run) every entry gets
\* new_this_month_bonus.
C14_NoveltyAcrossRuns ==
    JustScored =>
        /\ \A k \in DOMAIN merged :
               NoveltyBonus(merged[k]) =
                   IF CarriedOver(merged[k]) THEN WEIGHTS.carried_over_bonus
                   ELSE WEIGHTS.new_this_month_bonus
        /\ run_no = 1 =>
               \A k \in DOMAIN merged :
                   NoveltyBonus(merged[k]) = WEIGHTS.new_this_month_bonus

\* the second run has scored an entry that is new and an entry carried over
\* under a name spelled otherwise than the one the first run wrote back
C14_Witness ==
    /\ JustScored
    /\ run_no = 2
    /\ \E k \in DOMAIN merged :
           /\ NoveltyBonus(merged[k]) = WEIGHTS.carried_over_bonus
           /\ merged[k].name \notin Range(state_file.last_month_names)
    /\ \E k \in DOMAIN merged :
           NoveltyBonus(merged[k]) = WEIGHTS.new_this_month_bonus


\* the sources of r contain Resy and not Eater
ResyOnly(r) == "Resy" \in Range(r.sources) /\ "Eater" \notin Range(r.sources)

\* u is a path under assets/, relative or below PUBLIC_BASE_URL
IsAssetsPath(u) ==
    \/ StartsWith(u, <<"a","s","s","e","t","s","/">>)
    \/ /\ Truthy(env.PUBLIC_BASE_URL)
       /\ StartsWith(u, env.PUBLIC_BASE_URL \o <<"/","a","s","s","e","t","s","/">>)

\* C17: through the whole of main og_image is never invoked for an entry
\* whose sources contain Resy and not Eater; when main finishes the image_url
\* of every such entry is null, DEFAULT_RESY_IMAGE or a re-hosted assets/
\* path; and cache_resy_images_for_pages leaves the image_url of every other
\* entry as it was.
C17_ResyOnlyImages ==
    /\ [](\A r \in og_calls : ~ ResyOnly(r))
    /\ [](pc = "finished" =>
             \A k \in DOMAIN merged :
                 ResyOnly(merged[k]) =>
                     \/ merged[k].image_url = None
                     \/ merged[k].image_url = env.DEFAULT_RESY_IMAGE
                     \/ IsAssetsPath(merged[k].image_url))
    /\ [][pc = "cache_images" /\ pc' = Following("cache_images") =>
             /\ Len(merged') = Len(merged)
             /\ \A k \in DOMAIN merged :
                    ~ ResyOnly(merged[k]) =>
                        merged'[k].image_url = merged[k].image_url]_vars

\* main has finished with a re-hosted photo for one Resy-only entry, with
\* another Resy-only entry that has a booking link fit for og_image and no
\* photo of its own, and with og_image invoked for an entry of Eater that
\* keeps the image it got
C17_Witness ==
    /\ pc = "finished"
    /\ \E k \in DOMAIN merged :
           ResyOnly(merged[k]) /\ IsAssetsPath(merged[k].image_url)
    /\ \E k \in DOMAIN merged :
           /\ ResyOnly(merged[k])
           /\ _ok_for_og(merged[k].url)
           /\ Truthy(merged[k].url)
           /\ merged[k].image_url \in {None, env.DEFAULT_RESY_IMAGE}
    /\ \E r \in og_calls : \E k \in DOMAIN merged :
           /\ merged[k].name = r.name
           /\ merged[k].image_url \in og_image(merged[k].url) \ {None}


\* the steps of a run without the raise that ended it
StepsDone ==
    IF steps # <<>> /\ steps[Len(steps)] = "raise"
    THEN SubSeq(steps, 1, Len(steps) - 1) ELSE steps

\* the order the claim gives: load_state, fetch and extract of each source,
\* dedupe, the image fill, compute_heat, the image cache, render, save_state,
\* send_email
ClaimedOrder ==
    <<"load_state">> \o [k \in DOMAIN SOURCES |-> "fetch"]
        \o <<"dedupe", "og_fill", "default_image", "compute_heat", "cache_images",
             "render", "save_state", "send_email">>

\* the names of the entries of this run
NamesOfRun == [k \in DOMAIN merged |-> merged[k].name]

\* the run has ended at a send_email that raised
SendFailed ==
    /\ pc = "raised"
    /\ Len(steps) >= 2
    /\ steps[Len(steps) - 1] = "send_email"

\* C19: the steps of main occur in the fixed order load_state, fetch and
\* extract per source, dedupe, image fill, compute_heat, cache images, render,
\* save_state, send_email; when send_email raises the persisted
\* last_month_names already holds this run's names; and a run that fails
\* before render leaves the persisted state as it was (the state file changes
\* only in the save_state step, which follows render).
C19_StepOrder ==
    /\ [](/\ Len(StepsDone) <= Len(ClaimedOrder)
          /\ StepsDone = SubSeq(ClaimedOrder, 1, Len(StepsDone)))
    /\ [](SendFailed =>
             state_file = [exists |-> TRUE, last_month_names |-> NamesOfRun])
    /\ [][state_file' # state_file =>
             /\ steps' = Append(steps, "save_state")
             /\ steps[Len(steps)] = "render"
             /\ dist.rendered]_vars

\* send_email has raised in a run whose names are not those the state file
\* held when the run began
C19_Witness ==
    /\ SendFailed
    /\ NamesOfRun # <<>>
    /\ load_state(state_file) # last_month_names


(***************************************************************************)
(* Claims about the slices and the links of the Resy extractor             *)
(***************************************************************************)
\* the headings the loop of line 706 runs over, of which n are used
UsedHeadings(page, n) == SubSeq(headings_all(page), 1, n)

\* the last element of the selected scope
ScopeEnd(page) == SubtreeEnd(page, ResyScope(page))

\* the element of the first heading with a stop phrase (Len(page) + 1 if
\* there is none)
StopBoundary(page) ==
    IF FirstStopHeading(page) = -1 THEN Len(page) + 1
    ELSE headings_all(page)[FirstStopHeading(page) + 1]

\* C15: the slice of the heading at position idx of the used headings is the
\* run of elements from that heading up to, and without, the next heading, in
\* document order; the slice of the last used heading starts at that heading
\* and holds no element outside the selected scope and no element at or after
\* the stop-boundary heading.  (Whether the heading element itself is counted
\* is left open: the pickers read the elements below it either way.)
C15_SliceWithinScope ==
    (pc = "sources" /\ Len(pages) = 1) =>
        \A idx \in 1..log[1].headings_used :
            \E slice \in {_entry_slice_nodes_from_list(
                              pages[1], UsedHeadings(pages[1], log[1].headings_used), idx)} :
                IF idx < log[1].headings_used
                THEN slice = IndexSeq(headings_all(pages[1])[idx] + 1,
                                      headings_all(pages[1])[idx + 1] - 1)
                ELSE /\ \E last \in 0..Len(pages[1]) :
                            slice = IndexSeq(headings_all(pages[1])[idx] + 1, last)
                     /\ \A k \in DOMAIN slice :
                            /\ slice[k] <= ScopeEnd(pages[1])
                            /\ slice[k] < StopBoundary(pages[1])


\* the absolute links of the a elements among the nodes, in the order met
LinksOfSlice(doc, nodes, base_url) ==
    SelectSeq([k \in DOMAIN nodes |->
                  IF doc[nodes[k]].name = "a" /\ Get(doc[nodes[k]], "href") # None
                  THEN _abs_url(base_url, Get(doc[nodes[k]], "href"))
                  ELSE None],
              LAMBDA u : u # None /\ StartsWith(u, <<"h","t","t","p">>))

\* the link is on a reservation platform
OnPlatform(u) ==
    \/ EndsWith(UrlNetloc(u), <<"r","e","s","y",".","c","o","m">>)
    \/ EndsWith(UrlNetloc(u), <<"o","p","e","n","t","a","b","l","e",".","c","o","m">>)

\* what the link picker is to return for the links: the first on a
\* reservation platform, else the first of a host outside base_domain, else
\* the first, else None
PreferredLink(links, base_domain) ==
    First(SelectSeq(links, LAMBDA u : OnPlatform(u))
          \o SelectSeq(links, LAMBDA u : ~ EndsWith(UrlNetloc(u), base_domain))
          \o links)

\* C16: the url of every entry of the Resy extractor is the link preferred
\* among the absolute links of its slice (the first on a reservation
\* platform, else the first of a host outside resy.com, else the first, else
\* none) unless the booking gate rejects that link, and is then None: so it
\* is None or a URL the gate accepts.
C16_PreferredLinkGated ==
    pc = "scenario scored" =>
        \A k \in DOMAIN all_items :
            \E picked \in {PreferredLink(
                               LinksOfSlice(pages[1],
                                            _entry_slice_nodes_from_list(
                                                pages[1], headings_all(pages[1]), k),
                                            <<"h","t","t","p","s",":","/","/","b","l","o","g",".","r","e","s","y",".","c","o","m">>),
                               <<"r","e","s","y",".","c","o","m">>)} :
                /\ all_items[k].url =
                       IF picked # None /\ _is_resy_restaurant_booking_url(picked)
                       THEN picked ELSE None
                /\ \/ all_items[k].url = None
                   \/ _is_resy_restaurant_booking_url(all_items[k].url)

====
